---------------------------- MODULE Spec2Model ----------------------------
(***************************************************************************)
(* A model of the path-addressed patch engine of cron-workflow-replicator  *)
(* (src/jsonpath/evaluator.go) and of the operations around it.            *)
(*                                                                         *)
(* Strings of the program (paths, literal values, mapping keys) are        *)
(* sequences of characters.  A character is a one-element TLA+ string; an  *)
(* ordinary (non-special, non-digit) run of key characters such as "spec"  *)
(* is written as one symbol, which no parser of the program looks into.    *)
(***************************************************************************)
EXTENDS Integers, Sequences, FiniteSets, TLC

VARIABLES
  target,     \* the typed record the caller hands to ApplyPaths
  paths,      \* the edit list the caller hands to ApplyPaths
  targetMap,  \* the generic tree ApplyPaths works on
  i,          \* index of the next edit of the loop of ApplyPaths
  pc,         \* position in ApplyPaths
  err,        \* the error ApplyPaths returned (NoErr: none)
  prevMap,    \* the tree before the edit processed last
  literal,    \* convertValue: the input literal
  converted,  \* convertValue: its result
  errPath,    \* the path named by the error ApplyPaths returned (NoPath: none)
  result,     \* mapToStruct into a fresh record: what it left, and whether it failed
  baseCW,     \* the record the target was copied from, sharing its maps, slices and pointers
  files,      \* kustomize: fs.files[kustomizationPath], the kustomization.yaml of the output directory
  update,     \* kustomize: the last call of UpdateKustomization, its arguments and what it returned
  unit,       \* runner: the values of the unit processUnit was given
  valueIdx,   \* runner: index of the next value of the loop of processUnit
  sameFilenameCounter, \* runner: the map of that name
  outputs,    \* runner: the files of the output directory, each with the manifest it holds
  runErr,     \* runner: the error processUnit returned ("nil": none, "running": not yet)
  mergeDst,   \* MergeStruct: dst, a pointer, as the caller holds it
  mergeSrc,   \* MergeStruct: src, a pointer
  mergePc,    \* MergeStruct: "call" before it, "returned" after it
  dstBefore,  \* MergeStruct: dst as it was before the call
  pathText,   \* parseJSONPath: the path given
  parseOut,   \* parseJSONPath: what it returned
  calls,      \* concurrent ApplyPaths: the arguments and locals of each invocation
  cells       \* concurrent ApplyPaths: the trees the invocations have built

\* the variables of one ApplyPaths call, of the coercer and of the round trip
applyVars ==
  <<target, paths, targetMap, i, pc, err, prevMap, literal, converted, errPath, result, baseCW>>

\* the variables of the concurrent invocations
concVars == <<calls, cells>>

\* the variables of UpdateKustomization
kustVars == <<files, update>>

\* the variables of processUnit
runVars == <<unit, valueIdx, sameFilenameCounter, outputs, runErr>>

\* the variables of MergeStruct
mergeVars == <<mergeDst, mergeSrc, mergePc, dstBefore>>

\* the variables of parseJSONPath on its own
parseVars == <<pathText, parseOut>>

\* the variables a step of ApplyPaths, of the coercer or of the round trip leaves alone
otherVars == <<concVars, kustVars, runVars, mergeVars, parseVars>>

vars == <<applyVars, concVars, kustVars, runVars, mergeVars, parseVars>>

-----------------------------------------------------------------------------
(* Characters and strings *)

Digits == {"0", "1", "2", "3", "4", "5", "6", "7", "8", "9"}

IsDigit(c) == c \in Digits

DigitVal(c) ==
  CASE c = "0" -> 0 [] c = "1" -> 1 [] c = "2" -> 2 [] c = "3" -> 3
    [] c = "4" -> 4 [] c = "5" -> 5 [] c = "6" -> 6 [] c = "7" -> 7
    [] c = "8" -> 8 [] c = "9" -> 9

AllDigits(s) == \A k \in 1..Len(s) : IsDigit(s[k])

Sub(s, a, b) == IF a > b THEN << >> ELSE SubSeq(s, a, b)

Contains(s, c) == \E k \in 1..Len(s) : s[k] = c

\* position of the first / last occurrence of c in s, 0 when there is none
IndexOf(s, c) ==
  IF Contains(s, c) THEN CHOOSE k \in 1..Len(s) : s[k] = c /\ \A j \in 1..(k-1) : s[j] # c
  ELSE 0

LastIndexOf(s, c) ==
  IF Contains(s, c) THEN CHOOSE k \in 1..Len(s) : s[k] = c /\ \A j \in (k+1)..Len(s) : s[j] # c
  ELSE 0

HasPrefix(s, c) == Len(s) >= 1 /\ s[1] = c

HasSuffix(s, c) == Len(s) >= 1 /\ s[Len(s)] = c

RECURSIVE StripZeros(_)
StripZeros(d) ==
  IF Len(d) > 1 /\ d[1] = "0" THEN StripZeros(Tail(d)) ELSE d

RECURSIVE StripAllLeadingZeros(_)
StripAllLeadingZeros(d) ==
  IF Len(d) >= 1 /\ d[1] = "0" THEN StripAllLeadingZeros(Tail(d)) ELSE d

RECURSIVE StripTrailingZeros(_)
StripTrailingZeros(d) ==
  IF Len(d) >= 1 /\ d[Len(d)] = "0" THEN StripTrailingZeros(Sub(d, 1, Len(d) - 1)) ELSE d

\* digit strings of equal length, compared as numbers
RECURSIVE DigitsLeq(_, _)
DigitsLeq(a, b) ==
  IF a = << >> THEN TRUE
  ELSE IF DigitVal(a[1]) < DigitVal(b[1]) THEN TRUE
  ELSE IF DigitVal(a[1]) > DigitVal(b[1]) THEN FALSE
  ELSE DigitsLeq(Tail(a), Tail(b))

\* the value of a short digit string
RECURSIVE SmallInt(_)
SmallInt(d) ==
  IF d = << >> THEN 0 ELSE SmallInt(Sub(d, 1, Len(d) - 1)) * 10 + DigitVal(d[Len(d)])

-----------------------------------------------------------------------------
(* Generic tree nodes: null, boolean, number, string, sequence, mapping *)

Null == [t |-> "null"]

Bool(b) == [t |-> "bool", b |-> b]

\* an integer: its sign and its decimal digits without leading zeros
Int64(neg, d) == [t |-> "int", neg |-> neg, d |-> d]

\* a float64: sign, significant digits (no leading or trailing zeros) and the
\* position of the decimal point after the first pointPos digits; rounding to
\* 53 bits is not modelled
Float(neg, sig, pointPos) == [t |-> "float", neg |-> neg, sig |-> sig, pp |-> pointPos]

FloatInf(neg) == [t |-> "float", neg |-> neg, sig |-> <<"inf">>, pp |-> 0]

FloatNaN == [t |-> "float", neg |-> FALSE, sig |-> <<"nan">>, pp |-> 0]

Str(s) == [t |-> "str", s |-> s]

Arr(a) == [t |-> "arr", a |-> a]

Map(m) == [t |-> "map", m |-> m]

EmptyMap == Map(<< >>)

IsMap(v) == v.t = "map"

IsArr(v) == v.t = "arr"

\* a fresh map holding the entry alone
PutAlone(m, k, v) == [x \in {k} |-> v]

\* m[k] = v on a Go map
Put(m, k, v) == [x \in (DOMAIN m) \cup {k} |-> IF x = k THEN v ELSE m[x]]

\* a[n] = v on a Go slice (1-based here)
SetAt(a, n, v) ==
  IF n \in 1..Len(a) THEN Sub(a, 1, n - 1) \o <<v>> \o Sub(a, n + 1, Len(a)) ELSE a

RECURSIVE Repeat(_, _)
Repeat(v, n) == IF n <= 0 THEN << >> ELSE <<v>> \o Repeat(v, n - 1)

-----------------------------------------------------------------------------
(* strconv.Atoi and strconv.ParseFloat, as convertValue uses them          *)
(* (src/jsonpath/evaluator.go:112 and :117).  The alphabet of the literals *)
(* has no 'p', 'P' or '_', so hexadecimal floats and digit separators do   *)
(* not occur.                                                              *)

MaxInt64Digits == <<"9","2","2","3","3","7","2","0","3","6","8","5","4","7","7","5","8","0","7">>

MinInt64Digits == <<"9","2","2","3","3","7","2","0","3","6","8","5","4","7","7","5","8","0","8">>

\* the first 17 significant digits of the largest float64, 1.7976931348623157e308
MaxFloatDigits == <<"1","7","9","7","6","9","3","1","3","4","8","6","2","3","1","5","7">>

HasSign(s) == Len(s) >= 1 /\ s[1] \in {"+", "-"}

Unsigned(s) == IF HasSign(s) THEN Tail(s) ELSE s

IsNeg(s) == Len(s) >= 1 /\ s[1] = "-"

\* strconv.Atoi: optional '+' or '-', then decimal digits, within int64
Atoi(s) ==
  LET body == Unsigned(s)
      d == StripZeros(body)
      inRange == \/ Len(d) < 19
                 \/ /\ Len(d) = 19
                    /\ DigitsLeq(d, IF IsNeg(s) THEN MinInt64Digits ELSE MaxInt64Digits)
  IN IF body = << >> \/ ~AllDigits(body) \/ ~inRange
       THEN [ok |-> FALSE, v |-> Null]
       ELSE [ok |-> TRUE, v |-> Int64(IsNeg(s) /\ d # <<"0">>, d)]

Lower(c) == CASE c = "N" -> "n" [] c = "I" -> "i" [] c = "E" -> "e" [] OTHER -> c

LowerSeq(s) == [k \in 1..Len(s) |-> Lower(s[k])]

Pad17(d) == Sub(d \o Repeat("0", 17), 1, 17)

\* the float64 with mantissa digits ip.fp and decimal exponent e
MkFloat(neg, ip, fp, e) ==
  LET all == ip \o fp
      sig1 == StripAllLeadingZeros(all)
      pp == Len(ip) + e - (Len(all) - Len(sig1))
      sig == StripTrailingZeros(sig1)
  IN IF sig = << >> \/ pp < -323 THEN [ok |-> TRUE, v |-> Float(FALSE, << >>, 0)]
     ELSE IF pp > 309 \/ (pp = 309 /\ ~DigitsLeq(Pad17(sig), MaxFloatDigits))
       THEN [ok |-> FALSE, v |-> Null]          \* ErrRange
       ELSE [ok |-> TRUE, v |-> Float(neg, sig, pp)]

\* the value of an exponent's digits, saturated (anything above 4 digits is out
\* of the range of float64 anyway)
ExpVal(d) == IF Len(StripZeros(d)) > 4 THEN 9999 ELSE SmallInt(StripZeros(d))

\* the decimal syntax of strconv.readFloat: digits with at most one '.', at
\* least one digit, then an optional exponent e[+-]digits
DecimalFloat(neg, body) ==
  LET low == LowerSeq(body)
      ePos == IndexOf(low, "e")
      mant == IF ePos = 0 THEN body ELSE Sub(body, 1, ePos - 1)
      expo == IF ePos = 0 THEN << >> ELSE Sub(body, ePos + 1, Len(body))
      expDigits == Unsigned(expo)
      dot == IndexOf(mant, ".")
      ip == IF dot = 0 THEN mant ELSE Sub(mant, 1, dot - 1)
      fp == IF dot = 0 THEN << >> ELSE Sub(mant, dot + 1, Len(mant))
      mantOk == AllDigits(ip) /\ AllDigits(fp) /\ Len(ip) + Len(fp) >= 1
      expOk == ePos = 0 \/ (expDigits # << >> /\ AllDigits(expDigits))
      e == IF ePos = 0 THEN 0
           ELSE IF IsNeg(expo) THEN 0 - ExpVal(expDigits) ELSE ExpVal(expDigits)
  IN IF mantOk /\ expOk THEN MkFloat(neg, ip, fp, e) ELSE [ok |-> FALSE, v |-> Null]

\* strconv.ParseFloat(s, 64)
ParseFloat(s) ==
  LET body == Unsigned(s)
      low == LowerSeq(body)
  IN IF low = <<"i","n","f">> \/ low = <<"i","n","f","i","n","i","t","y">>
       THEN [ok |-> TRUE, v |-> FloatInf(IsNeg(s))]
     ELSE IF LowerSeq(s) = <<"n","a","n">>
       THEN [ok |-> TRUE, v |-> FloatNaN]
     ELSE IF Len(low) >= 2 /\ low[1] = "0" /\ low[2] = "x"
       THEN [ok |-> FALSE, v |-> Null]          \* a hexadecimal mantissa needs a 'p' exponent
     ELSE DecimalFloat(IsNeg(s), body)

-----------------------------------------------------------------------------
(* encoding/json's decoding of a text into interface{} values, as the      *)
(* json.Unmarshal calls of convertValue use it (evaluator.go:124, :132).   *)
(* A parse result is [ok, v, p]: p is the position after the value.  The   *)
(* alphabet has no backslash and no control character, so a JSON string is *)
(* the characters between two quotes; the only white space is the blank.   *)

Quote == "\""

Fail == [ok |-> FALSE, v |-> Null, p |-> 0]

RECURSIVE SkipWs(_, _)
SkipWs(s, p) == IF p <= Len(s) /\ s[p] = " " THEN SkipWs(s, p + 1) ELSE p

\* the end of the longest run of digits starting at p (p - 1 when there is none)
RECURSIVE DigitsEnd(_, _)
DigitsEnd(s, p) == IF p <= Len(s) /\ IsDigit(s[p]) THEN DigitsEnd(s, p + 1) ELSE p - 1

IsWord(s, p, w) == p + Len(w) - 1 <= Len(s) /\ Sub(s, p, p + Len(w) - 1) = w

\* a JSON number, -?(0|[1-9][0-9]*)(.[0-9]+)?([eE][+-]?[0-9]+)?, decoded to float64
JSONNumber(s, p) ==
  LET Value(expEnd, f) ==
        IF ~f.ok THEN Fail      \* a number out of the range of float64
        ELSE [ok |-> TRUE, v |-> f.v, p |-> expEnd + 1]
      ExponentEnd(hasExp, expStart, expEnd) ==
        IF hasExp /\ expEnd < expStart THEN Fail
        ELSE Value(expEnd, ParseFloat(Sub(s, p, expEnd)))
      Exponent(fracEnd, hasExp, expStart) ==
        ExponentEnd(hasExp, expStart, IF hasExp THEN DigitsEnd(s, expStart) ELSE fracEnd)
      FractionEnd(intEnd, hasFrac, fracEnd) ==
        IF hasFrac /\ fracEnd < intEnd + 2 THEN Fail
        ELSE Exponent(fracEnd,
                      fracEnd + 1 <= Len(s) /\ s[fracEnd + 1] \in {"e", "E"},
                      IF fracEnd + 2 <= Len(s) /\ s[fracEnd + 2] \in {"+", "-"}
                        THEN fracEnd + 3 ELSE fracEnd + 2)
      Fraction(intEnd, hasFrac) ==
        FractionEnd(intEnd, hasFrac, IF hasFrac THEN DigitsEnd(s, intEnd + 2) ELSE intEnd)
      IntegerEnd(p1, intEnd) ==
        IF intEnd < p1 THEN Fail
        ELSE Fraction(intEnd, intEnd + 1 <= Len(s) /\ s[intEnd + 1] = ".")
      Integer(p1) ==
        IntegerEnd(p1, IF p1 <= Len(s) /\ s[p1] = "0" THEN p1 ELSE DigitsEnd(s, p1))
  IN Integer(IF p <= Len(s) /\ s[p] = "-" THEN p + 1 ELSE p)

JSONString(s, p) ==
  LET Close(rest, close) ==
        IF close = 0 THEN Fail
        ELSE [ok |-> TRUE, v |-> Str(Sub(rest, 1, close - 1)), p |-> p + close + 1]
  IN Close(Sub(s, p + 1, Len(s)), IndexOf(Sub(s, p + 1, Len(s)), Quote))

RECURSIVE JSONValue(_, _), JSONElements(_, _, _), JSONMembers(_, _, _)
JSONValue(s, p0) ==
  LET p == SkipWs(s, p0)
      q == SkipWs(s, p + 1)
  IN IF p > Len(s) THEN Fail
     ELSE IF s[p] = "[" THEN
       IF q <= Len(s) /\ s[q] = "]" THEN [ok |-> TRUE, v |-> Arr(<< >>), p |-> q + 1]
       ELSE JSONElements(s, q, << >>)
     ELSE IF s[p] = "{" THEN
       IF q <= Len(s) /\ s[q] = "}" THEN [ok |-> TRUE, v |-> EmptyMap, p |-> q + 1]
       ELSE JSONMembers(s, q, << >>)
     ELSE IF s[p] = Quote THEN JSONString(s, p)
     ELSE IF s[p] = "-" \/ IsDigit(s[p]) THEN JSONNumber(s, p)
     ELSE IF IsWord(s, p, <<"t","r","u","e">>) THEN [ok |-> TRUE, v |-> Bool(TRUE), p |-> p + 4]
     ELSE IF IsWord(s, p, <<"f","a","l","s","e">>) THEN [ok |-> TRUE, v |-> Bool(FALSE), p |-> p + 5]
     ELSE IF IsWord(s, p, <<"n","u","l","l">>) THEN [ok |-> TRUE, v |-> Null, p |-> p + 4]
     ELSE Fail

\* the elements of an array, from the first one, up to and including the ']'
JSONElements(s, p0, acc) ==
  LET After(e, q) ==
        IF ~e.ok \/ q > Len(s) THEN Fail
        ELSE IF s[q] = "," THEN JSONElements(s, q + 1, Append(acc, e.v))
        ELSE IF s[q] = "]" THEN [ok |-> TRUE, v |-> Arr(Append(acc, e.v)), p |-> q + 1]
        ELSE Fail
      Element(e) == After(e, SkipWs(s, e.p))
  IN Element(JSONValue(s, p0))

\* the members of an object, from the first key, up to and including the '}';
\* a repeated key keeps its last value
JSONMembers(s, p0, acc) ==
  LET After(k, e, q) ==
        IF ~e.ok \/ q > Len(s) THEN Fail
        ELSE IF s[q] = "," THEN JSONMembers(s, q + 1, Put(acc, k.v.s, e.v))
        ELSE IF s[q] = "}" THEN [ok |-> TRUE, v |-> Map(Put(acc, k.v.s, e.v)), p |-> q + 1]
        ELSE Fail
      Member(k, e) == After(k, e, SkipWs(s, e.p))
      Colon(k, c) ==
        Member(k, IF k.ok /\ c <= Len(s) /\ s[c] = ":" THEN JSONValue(s, c + 1) ELSE Fail)
      Key(k) == Colon(k, SkipWs(s, k.p))
      At(p) == Key(IF p <= Len(s) /\ s[p] = Quote THEN JSONString(s, p) ELSE Fail)
  IN At(SkipWs(s, p0))

\* json.Unmarshal([]byte(value), &x) for x a []interface{} or a
\* map[string]interface{}: the whole text is one JSON value of that kind
Unmarshal(s, kind) ==
  LET Whole(r) ==
        IF r.ok /\ SkipWs(s, r.p) = Len(s) + 1 /\ r.v.t \in {kind, "null"}
          THEN [ok |-> TRUE, v |-> r.v]
          ELSE [ok |-> FALSE, v |-> Null]
  IN Whole(JSONValue(s, 1))

-----------------------------------------------------------------------------
(* The value coercer *)

\* convertValue with the two number parsers in the other order
convertValueFloatFirst(value) ==
  LET Pick(intVal, floatVal, arrayVal, objVal) ==
        IF value = <<"n","u","l","l">> THEN Null
        ELSE IF value = <<"t","r","u","e">> THEN Bool(TRUE)
        ELSE IF value = <<"f","a","l","s","e">> THEN Bool(FALSE)
        ELSE IF floatVal.ok THEN floatVal.v
        ELSE IF intVal.ok THEN intVal.v
        ELSE IF HasPrefix(value, "[") /\ HasSuffix(value, "]") /\ arrayVal.ok THEN arrayVal.v
        ELSE IF HasPrefix(value, "{") /\ HasSuffix(value, "}") /\ objVal.ok THEN objVal.v
        ELSE Str(value)
  IN Pick(Atoi(value), ParseFloat(value), Unmarshal(value, "arr"), Unmarshal(value, "map"))

convertValue(value) ==
  LET Pick(intVal, floatVal, arrayVal, objVal) ==
        IF value = <<"n","u","l","l">> THEN Null
        ELSE IF value = <<"t","r","u","e">> THEN Bool(TRUE)
        ELSE IF value = <<"f","a","l","s","e">> THEN Bool(FALSE)
        ELSE IF intVal.ok THEN intVal.v
        ELSE IF floatVal.ok THEN floatVal.v
        ELSE IF HasPrefix(value, "[") /\ HasSuffix(value, "]") /\ arrayVal.ok THEN arrayVal.v
        ELSE IF HasPrefix(value, "{") /\ HasSuffix(value, "}") /\ objVal.ok THEN objVal.v
        ELSE Str(value)
  IN Pick(Atoi(value), ParseFloat(value), Unmarshal(value, "arr"), Unmarshal(value, "map"))

-----------------------------------------------------------------------------
(* Errors.  NoErr is Go's nil error; a panic is the goroutine crashing     *)
(* instead of the call returning.                                          *)

Error(kind, key, index, length) ==
  [kind |-> kind, key |-> key, index |-> index, length |-> length]

NoErr == Error("nil", << >>, 0, 0)

ErrInvalidPath == Error("invalid JSONPath: must start with '$'", << >>, 0, 0)

ErrInvalidIndex(seg) == Error("invalid array index in segment", seg, 0, 0)

ErrCompile(token) == Error("failed to compile JSONPath", token, 0, 0)

\* the error of a key that holds no sequence, returned for a key that holds no mapping
ErrNotAMapAsNotAnArray(key) == Error("key exists but is not an array", key, 0, 0)

ErrNotAMap(key) == Error("path segment is not a map", key, 0, 0)

ErrNotAnArray(key) == Error("key exists but is not an array", key, 0, 0)

ErrNegativeOnEmpty(index) == Error("cannot use negative index on empty array", << >>, index, 0)

\* the out-of-bounds error reporting the resolved index, not the requested one
ErrNegativeOutOfBoundsResolved(index, length) ==
  Error("negative index is out of bounds for array of length", << >>, length + index, length)

ErrNegativeOutOfBounds(index, length) ==
  Error("negative index is out of bounds for array of length", << >>, index, length)

ErrOutOfBounds(index, length) == Error("index is out of bounds for array of length", << >>, index, length)

Panic(what) == Error("panic", what, 0, 0)

-----------------------------------------------------------------------------
(* The path parser *)

PathSegment(key, hasIndex, index) ==
  [Key |-> key, HasIndex |-> hasIndex, ArrayIndex |-> index, IsNegative |-> hasIndex /\ index < 0]

\* strings.Split(s, "."): the pieces between the dots, empty ones included
RECURSIVE Split(_)
Split(s) ==
  LET d == IndexOf(s, ".")
  IN IF d = 0 THEN <<s>> ELSE <<Sub(s, 1, d - 1)>> \o Split(Sub(s, d + 1, Len(s)))

\* arrayIndexPattern, ^(.+)\[(-?\d+)\]$ : the key is what precedes the last
\* '[', which must be followed by an optional '-', digits and the final ']'
IndexText(raw) == Sub(raw, LastIndexOf(raw, "[") + 1, Len(raw) - 1)

MatchesArrayIndexPattern(raw) ==
  LET open == LastIndexOf(raw, "[")
      digits == IF IsNeg(IndexText(raw)) THEN Tail(IndexText(raw)) ELSE IndexText(raw)
  IN /\ HasSuffix(raw, "]")
     /\ open >= 2
     /\ digits # << >>
     /\ AllDigits(digits)

\* strconv.Atoi of a matched index, as a number
IndexValue(text) ==
  IF IsNeg(text) THEN 0 - SmallInt(Tail(text)) ELSE SmallInt(text)

RECURSIVE parseSegments(_)
parseSegments(rawSegments) ==
  IF rawSegments = << >> THEN [ok |-> TRUE, segs |-> << >>, err |-> NoErr]
  ELSE
    LET rawSegment == Head(rawSegments)
        rest == parseSegments(Tail(rawSegments))
    IN IF rawSegment = << >> THEN rest
       ELSE IF MatchesArrayIndexPattern(rawSegment) THEN
         IF ~Atoi(IndexText(rawSegment)).ok
           THEN [ok |-> FALSE, segs |-> << >>, err |-> ErrInvalidIndex(rawSegment)]
         ELSE IF ~rest.ok THEN rest
         ELSE [rest EXCEPT !.segs =
                 <<PathSegment(Sub(rawSegment, 1, LastIndexOf(rawSegment, "[") - 1), TRUE,
                               IndexValue(IndexText(rawSegment)))>> \o @]
       ELSE IF ~rest.ok THEN rest
       ELSE [rest EXCEPT !.segs = <<PathSegment(rawSegment, FALSE, 0)>> \o @]

parseJSONPath(path) ==
  IF Len(path) < 1 \/ path[1] # "$"
    THEN [ok |-> FALSE, segs |-> << >>, err |-> ErrInvalidPath]
  ELSE
    LET p1 == Tail(path)
        p2 == IF Len(p1) > 0 /\ p1[1] = "." THEN Tail(p1) ELSE p1
    IN IF p2 = << >> THEN [ok |-> TRUE, segs |-> << >>, err |-> NoErr]
       ELSE parseSegments(Split(p2))

\* isArrayElementPath finding no index in any path
isArrayElementPathNever(path) == FALSE

isArrayElementPath(path) ==
  LET HasIndexed(parsed) ==
        parsed.ok /\ \E k \in 1..Len(parsed.segs) : parsed.segs[k].HasIndex
  IN HasIndexed(parseJSONPath(path))

-----------------------------------------------------------------------------
(* github.com/oliveagle/jsonpath, which setValueAtPath calls to compile    *)
(* the path and to look it up (evaluator.go:155 and :161).  The alphabet   *)
(* of the paths has no '?', ':', ',', '*', blank or backslash, so a        *)
(* bracket holds an index and never a filter or a range.                   *)

Last(s) == s[Len(s)]

TrimDot(token) == IF HasPrefix(token, ".") THEN Tail(token) ELSE token

\* tokenize, from character k on, with the tokens and the open token so far
RECURSIVE tokenizeFrom(_, _, _, _)
tokenizeFrom(query, k, tokens, token0) ==
  IF k > Len(query) THEN
    IF token0 = << >> THEN [ok |-> TRUE, tokens |-> tokens]
    ELSE IF TrimDot(token0) # <<"*">> \/ Last(tokens) # <<"*">>
      THEN [ok |-> TRUE, tokens |-> Append(tokens, TrimDot(token0))]
    ELSE [ok |-> TRUE, tokens |-> tokens]
  ELSE
    LET x == query[k]
        token == Append(token0, x)
    IN IF k = 1 THEN
         IF token = <<"$">> \/ token = <<"@">>
           THEN tokenizeFrom(query, k + 1, <<token>>, << >>)
           ELSE [ok |-> FALSE, tokens |-> << >>]      \* should start with '$'
       ELSE IF token = <<".">> THEN tokenizeFrom(query, k + 1, tokens, token)
       ELSE IF token = <<".", ".">> THEN
         tokenizeFrom(query, k + 1,
                      IF Last(tokens) # <<"*">> THEN Append(tokens, <<"*">>) ELSE tokens,
                      <<".">>)
       ELSE IF Contains(token, "[") THEN
         IF x = "]" THEN tokenizeFrom(query, k + 1, Append(tokens, TrimDot(token)), << >>)
         ELSE tokenizeFrom(query, k + 1, tokens, token)
       ELSE IF x = "." THEN
         tokenizeFrom(query, k + 1,
                      Append(tokens, Sub(TrimDot(token), 1, Len(TrimDot(token)) - 1)), <<".">>)
       ELSE tokenizeFrom(query, k + 1, tokens, token)

tokenize(query) == tokenizeFrom(query, 1, << >>, << >>)

\* parse_token: a step [op, key, arg]
parse_token(token) ==
  LET bracket == IndexOf(token, "[")
      tail == Sub(token, bracket, Len(token))
      inner == Sub(tail, 2, Len(tail) - 1)
  IN IF token = <<"*">> THEN [ok |-> TRUE, op |-> "scan", key |-> token, arg |-> 0]
     ELSE IF bracket = 0 THEN [ok |-> TRUE, op |-> "key", key |-> token, arg |-> 0]
     ELSE IF Len(tail) < 3 \/ ~Atoi(inner).ok
       THEN [ok |-> FALSE, op |-> "", key |-> token, arg |-> 0]
     ELSE [ok |-> TRUE, op |-> "idx", key |-> Sub(token, 1, bracket - 1),
           arg |-> IndexValue(IF HasPrefix(inner, "+") THEN Tail(inner) ELSE inner)]

\* jsonpath.Compile: the steps of the path, an error, or, for the empty path,
\* the index-out-of-range panic of tokens[0] on the empty token list
Compile(jpath) ==
  LET Parsed(tokens, steps) ==
        IF tokens = << >> THEN [steps |-> << >>, err |-> Panic(<<"Compile">>)]
        ELSE IF \E k \in 1..Len(steps) : ~steps[k].ok
          THEN [steps |-> << >>,
                err |-> ErrCompile(steps[CHOOSE k \in 1..Len(steps) :
                                           ~steps[k].ok /\ \A j \in 1..(k - 1) : steps[j].ok].key)]
        ELSE [steps |-> steps, err |-> NoErr]
      Tokenized(tk) ==
        IF ~tk.ok THEN [steps |-> << >>, err |-> ErrCompile(jpath)]
        ELSE Parsed(tk.tokens, [k \in 1..(Len(tk.tokens) - 1) |-> parse_token(tk.tokens[k + 1])])
  IN Tokenized(tokenize(jpath))

\* a lookup result: ok (found), "err" (an error) or "panic"
Found(v) == [res |-> "ok", v |-> v]

NotFound == [res |-> "err", v |-> Null]

LookupPanic == [res |-> "panic", v |-> Null]

\* get_idx: reflect.TypeOf(nil).Kind() panics on a null object
get_idx(obj, idx) ==
  IF obj.t = "null" THEN LookupPanic
  ELSE IF ~IsArr(obj) THEN NotFound
  ELSE LET n == IF idx >= 0 THEN idx ELSE Len(obj.a) + idx
       IN IF n < 0 \/ n >= Len(obj.a) THEN NotFound ELSE Found(obj.a[n + 1])

\* get_key: on a mapping the entry; on a sequence the entries of its elements
\* that have one
RECURSIVE get_key(_, _), get_key_each(_, _)
get_key(obj, key) ==
  IF IsMap(obj) THEN
    IF key \in DOMAIN obj.m THEN Found(obj.m[key]) ELSE NotFound
  ELSE IF IsArr(obj) THEN Found(Arr(get_key_each(obj.a, key)))
  ELSE NotFound

get_key_each(elems, key) ==
  IF elems = << >> THEN << >>
  ELSE LET r == get_key(Head(elems), key)
       IN (IF r.res = "ok" THEN <<r.v>> ELSE << >>) \o get_key_each(Tail(elems), key)

RECURSIVE Lookup(_, _)
Lookup(steps, obj) ==
  LET s == Head(steps)
      Stepped(r) == IF r.res # "ok" THEN r ELSE Lookup(Tail(steps), r.v)
      Keyed(keyed) ==
        Stepped(IF s.op = "key" \/ keyed.res # "ok" THEN keyed ELSE get_idx(keyed.v, s.arg))
  IN IF steps = << >> THEN Found(obj)
     ELSE IF s.op = "scan" THEN NotFound     \* "expression don't support in filter"
     ELSE Keyed(IF s.op = "idx" /\ s.key = << >> THEN Found(obj) ELSE get_key(obj, s.key))

-----------------------------------------------------------------------------
(* The tree navigator and mutator.  The Go code mutates the mappings and   *)
(* sequences of the tree in place through the `current` reference; here a  *)
(* walk returns [m, err]: the mapping it was given as the walk left it     *)
(* (also when it failed half way) and the error.                           *)

\* setValueAtArrayIndex with a negative index resolved to the end of the array
setValueAtArrayIndexAppending(parent, arrayKey, index, isNegative, value) ==
  IF arrayKey \in DOMAIN parent /\ ~IsArr(parent[arrayKey])
    THEN [m |-> parent, err |-> ErrNotAnArray(arrayKey)]
  ELSE
    LET arr == IF arrayKey \in DOMAIN parent THEN parent[arrayKey].a ELSE << >>
        actualIndex == IF isNegative THEN Len(arr) ELSE index
        extended == IF actualIndex >= Len(arr)
                      THEN arr \o Repeat(Null, actualIndex + 1 - Len(arr)) ELSE arr
    IN IF isNegative /\ Len(arr) = 0
         THEN [m |-> parent, err |-> ErrNegativeOnEmpty(index)]
       ELSE [m |-> Put(parent, arrayKey, Arr(SetAt(extended, actualIndex + 1, convertValue(value)))),
             err |-> NoErr]

\* setValueAtArrayIndex extending the array with empty maps
setValueAtArrayIndexMapFilled(parent, arrayKey, index, isNegative, value) ==
  IF arrayKey \in DOMAIN parent /\ ~IsArr(parent[arrayKey])
    THEN [m |-> parent, err |-> ErrNotAnArray(arrayKey)]
  ELSE
    LET arr == IF arrayKey \in DOMAIN parent THEN parent[arrayKey].a ELSE << >>
        actualIndex == IF isNegative THEN Len(arr) + index ELSE index
        extended == IF actualIndex >= Len(arr)
                      THEN arr \o Repeat(EmptyMap, actualIndex + 1 - Len(arr)) ELSE arr
    IN IF isNegative /\ Len(arr) = 0
         THEN [m |-> parent, err |-> ErrNegativeOnEmpty(index)]
       ELSE IF isNegative /\ actualIndex < 0
         THEN [m |-> parent, err |-> ErrNegativeOutOfBounds(index, Len(arr))]
       ELSE [m |-> Put(parent, arrayKey, Arr(SetAt(extended, actualIndex + 1, convertValue(value)))),
             err |-> NoErr]

\* setValueAtArrayIndex(parent, arrayKey, index, isNegative, value)
setValueAtArrayIndex(parent, arrayKey, index, isNegative, value) ==
  IF arrayKey \in DOMAIN parent /\ ~IsArr(parent[arrayKey])
    THEN [m |-> parent, err |-> ErrNotAnArray(arrayKey)]
  ELSE
    LET arr == IF arrayKey \in DOMAIN parent THEN parent[arrayKey].a ELSE << >>
        actualIndex == IF isNegative THEN Len(arr) + index ELSE index
        extended == IF actualIndex >= Len(arr)
                      THEN arr \o Repeat(Null, actualIndex + 1 - Len(arr)) ELSE arr
    IN IF isNegative /\ Len(arr) = 0
         THEN [m |-> parent, err |-> ErrNegativeOnEmpty(index)]
       ELSE IF isNegative /\ actualIndex < 0
         THEN [m |-> parent, err |-> ErrNegativeOutOfBounds(index, Len(arr))]
       ELSE [m |-> Put(parent, arrayKey, Arr(SetAt(extended, actualIndex + 1, convertValue(value)))),
             err |-> NoErr]

\* navigateToArrayElement extending the array with nulls
navigateToArrayElementNullFilled(current, arrayKey, index, isNegative) ==
  IF arrayKey \in DOMAIN current /\ ~IsArr(current[arrayKey])
    THEN [m |-> current, err |-> ErrNotAnArray(arrayKey), at |-> 0]
  ELSE
    LET created == IF arrayKey \in DOMAIN current THEN current
                   ELSE Put(current, arrayKey, Arr(<< >>))
        arr == created[arrayKey].a
        actualIndex == IF isNegative THEN Len(arr) + index ELSE index
        extended == IF actualIndex >= Len(arr) /\ ~isNegative
                      THEN arr \o Repeat(Null, actualIndex + 1 - Len(arr)) ELSE arr
    IN IF isNegative /\ Len(arr) = 0
         THEN [m |-> created, err |-> ErrNegativeOnEmpty(index), at |-> 0]
       ELSE IF isNegative /\ actualIndex < 0
         THEN [m |-> created, err |-> ErrNegativeOutOfBounds(index, Len(arr)), at |-> 0]
       ELSE [m |-> Put(created, arrayKey, Arr(SetAt(extended, actualIndex + 1,
                                                    IF IsMap(extended[actualIndex + 1])
                                                      THEN extended[actualIndex + 1] ELSE EmptyMap))),
             err |-> NoErr, at |-> actualIndex]

\* navigateToArrayElement refusing an element that is no mapping
navigateToArrayElementStrict(current, arrayKey, index, isNegative) ==
  LET nav == navigateToArrayElementNullFilled(current, arrayKey, index, isNegative)
      n == IF isNegative THEN Len(current[arrayKey].a) + index ELSE index
  IN IF /\ arrayKey \in DOMAIN current
        /\ IsArr(current[arrayKey])
        /\ n >= 0 /\ n < Len(current[arrayKey].a)
        /\ ~IsMap(current[arrayKey].a[n + 1])
       THEN [m |-> current, err |-> ErrNotAMap(arrayKey), at |-> 0]
     ELSE nav

\* navigateToArrayElement(&current, arrayKey, index, isNegative): m is the
\* mapping `current` pointed to, as left by the call; on success `current`
\* points to the mapping m[arrayKey][at]
navigateToArrayElement(current, arrayKey, index, isNegative) ==
  IF arrayKey \in DOMAIN current /\ ~IsArr(current[arrayKey])
    THEN [m |-> current, err |-> ErrNotAnArray(arrayKey), at |-> 0]
  ELSE
    LET created == IF arrayKey \in DOMAIN current THEN current
                   ELSE Put(current, arrayKey, Arr(<< >>))
        arr == created[arrayKey].a
        actualIndex == IF isNegative THEN Len(arr) + index ELSE index
        extended == IF actualIndex >= Len(arr) /\ ~isNegative
                      THEN arr \o Repeat(EmptyMap, actualIndex + 1 - Len(arr)) ELSE arr
        element == extended[actualIndex + 1]
    IN IF isNegative /\ Len(arr) = 0
         THEN [m |-> created, err |-> ErrNegativeOnEmpty(index), at |-> 0]
       ELSE IF isNegative /\ actualIndex < 0
         THEN [m |-> created, err |-> ErrNegativeOutOfBounds(index, Len(arr)), at |-> 0]
       ELSE IF actualIndex >= Len(extended)
         THEN [m |-> Put(created, arrayKey, Arr(extended)),
               err |-> ErrOutOfBounds(actualIndex, Len(extended)), at |-> 0]
       ELSE IF IsMap(element)
         THEN [m |-> Put(created, arrayKey, Arr(extended)), err |-> NoErr, at |-> actualIndex]
       ELSE [m |-> Put(created, arrayKey, Arr(SetAt(extended, actualIndex + 1, EmptyMap))),
             err |-> NoErr, at |-> actualIndex]

\* WriteBack dropping the elements after the one the navigation went to
WriteBackTruncating(nav, arrayKey, sub) ==
  [m |-> Put(nav.m, arrayKey,
             Arr(SetAt(Sub(nav.m[arrayKey].a, 1, nav.at + 1), nav.at + 1, Map(sub.m)))),
   err |-> sub.err]

\* the mapping nav.m with the element the navigation went to replaced by the
\* mapping the rest of the walk left there
WriteBack(nav, arrayKey, sub) ==
  [m |-> Put(nav.m, arrayKey, Arr(SetAt(nav.m[arrayKey].a, nav.at + 1, Map(sub.m)))),
   err |-> sub.err]

\* the loop of createPathAndSetValue over the segments, from `current`
RECURSIVE createPathWalk(_, _, _)
createPathWalk(current, segments, value) ==
  LET segment == Head(segments)
      Arrived(nav) ==
        IF nav.err # NoErr THEN [m |-> nav.m, err |-> nav.err]
        ELSE WriteBack(nav, segment.Key,
                       createPathWalk(nav.m[segment.Key].a[nav.at + 1].m, Tail(segments), value))
      Descended(made, sub) == [m |-> Put(made, segment.Key, Map(sub.m)), err |-> sub.err]
      Entered(made) ==
        IF IsMap(made[segment.Key])
          THEN Descended(made, createPathWalk(made[segment.Key].m, Tail(segments), value))
          ELSE [m |-> made, err |-> ErrNotAMap(segment.Key)]
  IN IF segments = << >> THEN [m |-> current, err |-> NoErr]
     ELSE IF Len(segments) = 1 THEN
       IF segment.HasIndex
         THEN setValueAtArrayIndex(current, segment.Key, segment.ArrayIndex,
                                   segment.IsNegative, value)
         ELSE [m |-> Put(current, segment.Key, convertValue(value)), err |-> NoErr]
     ELSE IF segment.HasIndex
       THEN Arrived(navigateToArrayElement(current, segment.Key, segment.ArrayIndex,
                                           segment.IsNegative))
     ELSE Entered(IF segment.Key \in DOMAIN current THEN current
                  ELSE Put(current, segment.Key, EmptyMap))

createPathAndSetValue(tree, path, value) ==
  LET Walk(parsed) ==
        IF ~parsed.ok THEN [m |-> tree, err |-> parsed.err]
        ELSE createPathWalk(tree, parsed.segs, value)
  IN Walk(parseJSONPath(path))

\* the loop of replaceValueAtPath
RECURSIVE replaceWalk(_, _, _)
replaceWalk(current, segments, value) ==
  LET segment == Head(segments)
      Arrived(nav) ==
        IF nav.err # NoErr THEN [m |-> nav.m, err |-> nav.err]
        ELSE WriteBack(nav, segment.Key,
                       replaceWalk(nav.m[segment.Key].a[nav.at + 1].m, Tail(segments), value))
      Descended(made, sub) == [m |-> Put(made, segment.Key, Map(sub.m)), err |-> sub.err]
      Entered(made) ==
        IF segment.Key \in DOMAIN made /\ IsMap(made[segment.Key])
          THEN Descended(made, replaceWalk(made[segment.Key].m, Tail(segments), value))
          ELSE [m |-> made, err |-> ErrNotAMap(segment.Key)]
  IN IF segments = << >> THEN [m |-> current, err |-> NoErr]
     ELSE IF Len(segments) = 1 THEN
       IF segment.HasIndex
         THEN setValueAtArrayIndex(current, segment.Key, segment.ArrayIndex,
                                   segment.IsNegative, value)
         ELSE [m |-> Put(current, segment.Key, convertValue(value)), err |-> NoErr]
     ELSE IF segment.HasIndex
       THEN Arrived(navigateToArrayElement(current, segment.Key, segment.ArrayIndex,
                                           segment.IsNegative))
     ELSE Entered(current)

\* replaceValueAtPath refusing to write a path that holds a value already
replaceValueAtPathRefusing(tree, path, value) ==
  [m |-> tree, err |-> Error("path already holds a value", << >>, 0, 0)]

replaceValueAtPath(tree, path, value) ==
  LET Walk(parsed) ==
        IF ~parsed.ok THEN [m |-> tree, err |-> parsed.err]
        ELSE replaceWalk(tree, parsed.segs, value)
  IN Walk(parseJSONPath(path))

\* the loop of setArrayValue
RECURSIVE setArrayWalk(_, _, _)
setArrayWalk(current, segments, arrayVal) ==
  LET segment == Head(segments)
      Arrived(nav) ==
        IF nav.err # NoErr THEN [m |-> nav.m, err |-> nav.err]
        ELSE WriteBack(nav, segment.Key,
                       setArrayWalk(nav.m[segment.Key].a[nav.at + 1].m, Tail(segments), arrayVal))
      Descended(made, sub) == [m |-> Put(made, segment.Key, Map(sub.m)), err |-> sub.err]
      Entered(made) ==
        IF IsMap(made[segment.Key])
          THEN Descended(made, setArrayWalk(made[segment.Key].m, Tail(segments), arrayVal))
          ELSE [m |-> made, err |-> ErrNotAMap(segment.Key)]
  IN IF segments = << >> THEN [m |-> current, err |-> NoErr]
     ELSE IF Len(segments) = 1 THEN
       [m |-> Put(current, segment.Key, arrayVal), err |-> NoErr]
     ELSE IF segment.HasIndex
       THEN Arrived(navigateToArrayElement(current, segment.Key, segment.ArrayIndex,
                                           segment.IsNegative))
     ELSE Entered(IF segment.Key \in DOMAIN current THEN current
                  ELSE Put(current, segment.Key, EmptyMap))

\* setArrayValue building the mappings of the path anew, the array in them alone
setArrayValueAnew(tree, path, arrayVal) ==
  LET Over(made) == [m |-> made.m @@ tree, err |-> made.err]
      Walk(parsed) ==
        IF ~parsed.ok THEN [m |-> tree, err |-> parsed.err]
        ELSE Over(setArrayWalk(<< >>, parsed.segs, arrayVal))
  IN Walk(parseJSONPath(path))

\* setArrayValue keeping the elements of the old array past the end of the new one
setArrayValueOverlaying(tree, path, arrayVal) ==
  LET Walk(parsed, old) ==
        IF ~parsed.ok THEN [m |-> tree, err |-> parsed.err]
        ELSE setArrayWalk(tree, parsed.segs,
                          Arr(arrayVal.a \o Sub(old, Len(arrayVal.a) + 1, Len(old))))
      Old(found) == IF found.res = "ok" /\ IsArr(found.v) THEN found.v.a ELSE << >>
  IN Walk(parseJSONPath(path), Old(Lookup(Compile(path).steps, Map(tree))))

setArrayValue(tree, path, arrayVal) ==
  LET Walk(parsed) ==
        IF ~parsed.ok THEN [m |-> tree, err |-> parsed.err]
        ELSE setArrayWalk(tree, parsed.segs, arrayVal)
  IN Walk(parseJSONPath(path))

\* setValueAtPath(target, path, value): the tree as the edit left it, and the
\* error (a panic of the library included)
setValueAtPath(tree, path, value) ==
  LET Existing(existing, created, replaced) ==
        IF existing.res = "panic" THEN [m |-> tree, err |-> Panic(<<"Lookup">>)]
        ELSE IF existing.res = "err" THEN created
        ELSE replaced
      Compiled(compiled, created, replaced) ==
        IF compiled.err # NoErr THEN [m |-> tree, err |-> compiled.err]
        ELSE Existing(Lookup(compiled.steps, Map(tree)), created, replaced)
      Converted(convertedValue, isElement, created, replaced) ==
        IF IsArr(convertedValue) /\ ~isElement
          THEN setArrayValue(tree, path, convertedValue)
          ELSE Compiled(Compile(path), created, replaced)
  IN Converted(convertValue(value), isArrayElementPath(path),
               createPathAndSetValue(tree, path, value),
               replaceValueAtPath(tree, path, value))

-----------------------------------------------------------------------------
(* The typed record and its JSON encoding.  CronWorkflow is reduced to the *)
(* fields below, one of every kind the Go type has: strings, a boolean, a  *)
(* pointer to a number, a map[string]string, a metav1.Time, nested structs *)
(* and slices of structs and of strings.  A typed value is: a string (a    *)
(* character sequence), a BOOLEAN, an Int64, [nil, v] for a pointer,       *)
(* [nil, a] for a slice, [nil, m] for a map, [zero] for a Time and a       *)
(* function from the JSON field names for a struct.                        *)

TString == [k |-> "string"]

TBool == [k |-> "bool"]

TInt64 == [k |-> "int64"]

TTime == [k |-> "time"]

TMapString == [k |-> "map"]

TPtr(e) == [k |-> "ptr", e |-> e]

TSlice(e) == [k |-> "slice", e |-> e]

TStruct(fields) == [k |-> "struct", f |-> fields]

\* a struct field: its type and whether its tag says omitempty
Field(ty, omitempty) == [ty |-> ty, omitempty |-> omitempty]

TContainer ==
  TStruct(<<"name">> :> Field(TString, FALSE) @@ <<"args">> :> Field(TSlice(TString), TRUE))

TTemplate ==
  TStruct(<<"name">> :> Field(TString, TRUE) @@ <<"container">> :> Field(TPtr(TContainer), TRUE))

TWorkflowSpec ==
  TStruct(<<"templates">> :> Field(TSlice(TTemplate), TRUE)
          @@ <<"parallelism">> :> Field(TPtr(TInt64), TRUE))

TCronWorkflowSpec ==
  TStruct(<<"workflowSpec">> :> Field(TWorkflowSpec, FALSE)
          @@ <<"schedule">> :> Field(TString, FALSE)
          @@ <<"suspend">> :> Field(TBool, TRUE))

TObjectMeta ==
  TStruct(<<"name">> :> Field(TString, TRUE)
          @@ <<"labels">> :> Field(TMapString, TRUE)
          @@ <<"creationTimestamp">> :> Field(TTime, TRUE))

TCronWorkflow ==
  TStruct(<<"apiVersion">> :> Field(TString, TRUE)
          @@ <<"kind">> :> Field(TString, TRUE)
          @@ <<"metadata">> :> Field(TObjectMeta, FALSE)
          @@ <<"spec">> :> Field(TCronWorkflowSpec, FALSE))

Nil == [nil |-> TRUE]

Ptr(v) == [nil |-> FALSE, v |-> v]

Slice(a) == [nil |-> FALSE, a |-> a]

GoMap(m) == [nil |-> FALSE, m |-> m]

ZeroTime == [zero |-> TRUE]

ZeroInt == Int64(FALSE, <<"0">>)

RECURSIVE Zero(_)
Zero(ty) ==
  CASE ty.k = "string" -> << >>
    [] ty.k = "bool" -> FALSE
    [] ty.k = "int64" -> ZeroInt
    [] ty.k = "time" -> ZeroTime
    [] ty.k \in {"map", "ptr", "slice"} -> Nil
    [] ty.k = "struct" -> [n \in DOMAIN ty.f |-> Zero(ty.f[n].ty)]

\* encoding/json's isEmptyValue, for omitempty: false, 0, a nil pointer, an
\* empty slice, map or string; a struct (a Time included) is never empty
IsEmptyValue(ty, v) ==
  CASE ty.k = "string" -> v = << >>
    [] ty.k = "bool" -> v = FALSE
    [] ty.k = "int64" -> v = ZeroInt
    [] ty.k = "ptr" -> v.nil
    [] ty.k = "slice" -> v.nil \/ v.a = << >>
    [] ty.k = "map" -> v.nil \/ DOMAIN v.m = {}
    [] OTHER -> FALSE

\* 2^53: up to it every integer is a float64
TwoPow53Digits == <<"9","0","0","7","1","9","9","2","5","4","7","4","0","9","9","2">>

DigitChar(n) ==
  CASE n = 0 -> "0" [] n = 1 -> "1" [] n = 2 -> "2" [] n = 3 -> "3" [] n = 4 -> "4"
    [] n = 5 -> "5" [] n = 6 -> "6" [] n = 7 -> "7" [] n = 8 -> "8" [] n = 9 -> "9"

\* the digit string of d + 1
RECURSIVE DigitsSucc(_)
DigitsSucc(d) ==
  IF d = << >> THEN <<"1">>
  ELSE IF d[Len(d)] = "9" THEN DigitsSucc(Sub(d, 1, Len(d) - 1)) \o <<"0">>
  ELSE Sub(d, 1, Len(d) - 1) \o <<DigitChar(DigitVal(d[Len(d)]) + 1)>>

\* the integer with digits d as it comes back from json.Unmarshal into
\* interface{}: the nearest float64, ties to the even mantissa.  Exact up to
\* 2^53; between 2^53 and 2^54 (every other integer of 16 digits) the float64s
\* are the even integers and json.Marshal prints them in full.  The records of
\* the model hold no integer of 17 digits or more.
RoundToFloat64(d) ==
  IF Len(d) # 16 \/ DigitsLeq(d, TwoPow53Digits) THEN d
  ELSE IF DigitVal(d[16]) % 2 = 0 THEN d
  ELSE IF (10 * DigitVal(d[15]) + DigitVal(d[16]) - 1) % 4 = 0
    THEN Sub(d, 1, 15) \o <<DigitChar(DigitVal(d[16]) - 1)>>
  ELSE DigitsSucc(d)

\* json.Marshal of a typed value followed by json.Unmarshal into interface{}:
\* every number comes back as a float64
RECURSIVE Encode(_, _)
Encode(ty, v) ==
  CASE ty.k = "string" -> Str(v)
    [] ty.k = "bool" -> Bool(v)
    [] ty.k = "int64" -> IF v = ZeroInt THEN Float(FALSE, << >>, 0)
                         ELSE LET AsFloat(f) == Float(v.neg, StripTrailingZeros(f), Len(f))
                              IN AsFloat(RoundToFloat64(v.d))
    [] ty.k = "time" -> IF v.zero THEN Null ELSE Str(v.s)
    [] ty.k = "ptr" -> IF v.nil THEN Null ELSE Encode(ty.e, v.v)
    [] ty.k = "slice" -> IF v.nil THEN Null ELSE Arr([n \in 1..Len(v.a) |-> Encode(ty.e, v.a[n])])
    [] ty.k = "map" -> IF v.nil THEN Null ELSE Map([n \in DOMAIN v.m |-> Str(v.m[n])])
    [] ty.k = "struct" ->
         Map([n \in {x \in DOMAIN ty.f : ~(ty.f[x].omitempty /\ IsEmptyValue(ty.f[x].ty, v[x]))}
                |-> Encode(ty.f[n].ty, v[n])])

\* structToMap(target)
structToMap(obj) == Encode(TCronWorkflow, obj).m

\* json.Marshal of the tree fails on a float that is NaN or an infinity
RECURSIVE Marshalable(_)
Marshalable(v) ==
  CASE v.t = "float" -> v.sig \notin {<<"inf">>, <<"nan">>}
    [] v.t = "arr" -> \A n \in 1..Len(v.a) : Marshalable(v.a[n])
    [] v.t = "map" -> \A n \in DOMAIN v.m : Marshalable(v.m[n])
    [] OTHER -> TRUE

\* a number of the tree as an int64: an integer, or a float64 that json.Marshal
\* writes without fraction and exponent and that fits
NumberAsInt64(v) ==
  IF v.t = "int" THEN [ok |-> TRUE, v |-> v]
  ELSE IF v.sig = << >> THEN [ok |-> TRUE, v |-> ZeroInt]
  ELSE IF v.sig \in {<<"inf">>, <<"nan">>} \/ Len(v.sig) > v.pp \/ v.pp > 21
    THEN [ok |-> FALSE, v |-> ZeroInt]
  ELSE LET a == Atoi((IF v.neg THEN <<"-">> ELSE << >>) \o v.sig \o Repeat("0", v.pp - Len(v.sig)))
       IN [ok |-> a.ok, v |-> IF a.ok THEN a.v ELSE ZeroInt]

\* json.Unmarshal of the tree's JSON text into the typed value `old`: [v, ok].
\* A value of the wrong kind leaves its field as it was, is remembered as the
\* error, and decoding goes on; a null resets a pointer, slice, map or Time and
\* leaves every other field as it was; a key that is no field is skipped; an
\* existing map keeps its entries, an existing slice element is decoded into.
\* (The alphabet has no RFC 3339 time, and no edit of the model writes a
\* string to a Time, whose UnmarshalJSON would end the decoding at once.)
RECURSIVE Decode(_, _, _)
Decode(ty, tree, old) ==
  IF tree.t = "null" THEN
    [v |-> IF ty.k \in {"ptr", "slice", "map", "time"} THEN Zero(ty) ELSE old, ok |-> TRUE]
  ELSE
    CASE ty.k = "string" -> IF tree.t = "str" THEN [v |-> tree.s, ok |-> TRUE]
                            ELSE [v |-> old, ok |-> FALSE]
      [] ty.k = "bool" -> IF tree.t = "bool" THEN [v |-> tree.b, ok |-> TRUE]
                          ELSE [v |-> old, ok |-> FALSE]
      [] ty.k = "int64" -> IF tree.t \in {"int", "float"} /\ NumberAsInt64(tree).ok
                             THEN [v |-> NumberAsInt64(tree).v, ok |-> TRUE]
                             ELSE [v |-> old, ok |-> FALSE]
      [] ty.k = "time" -> [v |-> old, ok |-> FALSE]
      [] ty.k = "ptr" ->
           LET sub == Decode(ty.e, tree, IF old.nil THEN Zero(ty.e) ELSE old.v)
           IN [v |-> Ptr(sub.v), ok |-> sub.ok]
      [] ty.k = "slice" ->
           IF tree.t # "arr" THEN [v |-> old, ok |-> FALSE]
           ELSE LET oldLen == IF old.nil THEN 0 ELSE Len(old.a)
                    sub == [n \in 1..Len(tree.a) |->
                              Decode(ty.e, tree.a[n], IF n <= oldLen THEN old.a[n] ELSE Zero(ty.e))]
                IN [v |-> Slice([n \in 1..Len(tree.a) |-> sub[n].v]),
                    ok |-> \A n \in 1..Len(tree.a) : sub[n].ok]
      [] ty.k = "map" ->
           IF tree.t # "map" THEN [v |-> old, ok |-> FALSE]
           ELSE LET oldMap == IF old.nil THEN << >> ELSE old.m
                IN [v |-> GoMap([n \in (DOMAIN oldMap) \cup (DOMAIN tree.m) |->
                                   IF n \notin DOMAIN tree.m THEN oldMap[n]
                                   ELSE IF tree.m[n].t = "str" THEN tree.m[n].s
                                   ELSE << >>]),
                    ok |-> \A n \in DOMAIN tree.m : tree.m[n].t \in {"str", "null"}]
      [] ty.k = "struct" ->
           IF tree.t # "map" THEN [v |-> old, ok |-> FALSE]
           ELSE LET present == (DOMAIN ty.f) \cap (DOMAIN tree.m)
                    sub == [n \in present |-> Decode(ty.f[n].ty, tree.m[n], old[n])]
                IN [v |-> [n \in DOMAIN ty.f |-> IF n \in present THEN sub[n].v ELSE old[n]],
                    ok |-> \A n \in present : sub[n].ok]

\* What a record holds after json.Unmarshal has decoded the tree into a
\* shallow copy of it (cw := *base).  The copy has its own strings, numbers,
\* booleans and nested structs, and shares every map, every slice's elements
\* and every pointer's target: a map that exists is reused and written to, the
\* elements of a slice that exist are decoded in place (the base keeps its
\* length), a pointer that is set is decoded through.  A null, and a map,
\* slice or pointer that was nil, touch only the copy.
RECURSIVE Aliased(_, _, _)
Aliased(ty, tree, old) ==
  CASE ty.k = "map" ->
         IF tree.t = "map" /\ ~old.nil THEN Decode(ty, tree, old).v ELSE old
    [] ty.k = "ptr" ->
         IF tree.t # "null" /\ ~old.nil THEN Ptr(Decode(ty.e, tree, old.v).v) ELSE old
    [] ty.k = "slice" ->
         IF tree.t = "arr" /\ ~old.nil
           THEN Slice([n \in 1..Len(old.a) |->
                         IF n <= Len(tree.a) THEN Decode(ty.e, tree.a[n], old.a[n]).v
                         ELSE old.a[n]])
           ELSE old
    [] ty.k = "struct" ->
         IF tree.t = "map"
           THEN [n \in DOMAIN ty.f |->
                   IF n \in DOMAIN tree.m THEN Aliased(ty.f[n].ty, tree.m[n], old[n])
                   ELSE old[n]]
           ELSE old
    [] OTHER -> old

\* mapToStruct dropping the error of the decoder
mapToStructLenient(m, obj) ==
  [v |-> Decode(TCronWorkflow, Map(m), obj).v, ok |-> TRUE]

\* mapToStruct(m, target): the record as the call left it, and whether it failed
mapToStruct(m, obj) ==
  IF ~Marshalable(Map(m)) THEN [v |-> obj, ok |-> FALSE]
  ELSE Decode(TCronWorkflow, Map(m), obj)

ErrDecode == Error("failed to convert map back to CronWorkflow", << >>, 0, 0)

-----------------------------------------------------------------------------
(* The inputs of the model: paths, literal values, edits and base records  *)

\* $.metadata.labels.app
PLabelsApp == <<"$", ".", "metadata", ".", "labels", ".", "app">>

\* $.metadata.labels
PLabels == <<"$", ".", "metadata", ".", "labels">>

\* $.spec.workflowSpec.templates
PTemplates == <<"$", ".", "spec", ".", "workflowSpec", ".", "templates">>

\* $.spec.workflowSpec.templates[0].name
PTemplate0Name == <<"$", ".", "spec", ".", "workflowSpec", ".", "templates", "[", "0", "]", ".", "name">>

\* $.spec.workflowSpec.templates[2].name
PTemplate2Name == <<"$", ".", "spec", ".", "workflowSpec", ".", "templates", "[", "2", "]", ".", "name">>

\* $.spec.workflowSpec.templates[-1].name
PTemplateLastName == <<"$", ".", "spec", ".", "workflowSpec", ".", "templates", "[", "-", "1", "]", ".", "name">>

\* $.spec.workflowSpec.templates[-5].name
PTemplateMinus5Name == <<"$", ".", "spec", ".", "workflowSpec", ".", "templates", "[", "-", "5", "]", ".", "name">>

\* $.spec.workflowSpec.templates[0].container.args
PContainerArgs == <<"$", ".", "spec", ".", "workflowSpec", ".", "templates", "[", "0", "]", ".", "container", ".", "args">>

\* $.spec.workflowSpec.templates[0].container.args[0]
PContainerArgs0 == <<"$", ".", "spec", ".", "workflowSpec", ".", "templates", "[", "0", "]", ".", "container", ".", "args", "[", "0", "]">>

\* $.spec.args
PArgs == <<"$", ".", "spec", ".", "args">>

\* $.spec.args[0]
PArgs0 == <<"$", ".", "spec", ".", "args", "[", "0", "]">>

\* $.spec.args[2]
PArgs2 == <<"$", ".", "spec", ".", "args", "[", "2", "]">>

\* $.spec.args[-1]
PArgsLast == <<"$", ".", "spec", ".", "args", "[", "-", "1", "]">>

\* $.spec.args[-5]
PArgsMinus5 == <<"$", ".", "spec", ".", "args", "[", "-", "5", "]">>

\* metadata.name
PNoDollar == <<"metadata", ".", "name">>

\* (the empty path)
PEmpty == << >>

\* @.metadata.name
PAt == <<"@", ".", "metadata", ".", "name">>

\* $.spec.templates[abc].name
PBadIndex == <<"$", ".", "spec", ".", "templates", "[", "abc", "]", ".", "name">>

\* x
VString == <<"x">>

\* ["x","y"]
VArray == <<"[", Quote, "x", Quote, ",", Quote, "y", Quote, "]">>

\* ["z"]
VArray1 == <<"[", Quote, "z", Quote, "]">>

\* []
VEmptyArray == <<"[", "]">>

\* {"k":"v"}
VObject == <<"{", Quote, "k", Quote, ":", Quote, "v", Quote, "}">>

\* null
VNull == <<"n", "u", "l", "l">>

\* 5
VInt == <<"5">>

\* $.spec.workflowSpec.podMetadata.labels.app
PPodLabelsApp ==
  <<"$", ".", "spec", ".", "workflowSpec", ".", "podMetadata", ".", "labels", ".", "app">>

VName == <<"a">>

\* $.spec.workflowSpec.parallelism
PParallelism == <<"$", ".", "spec", ".", "workflowSpec", ".", "parallelism">>

\* $.spec.schedule[0]
PSchedule0 == <<"$", ".", "spec", ".", "schedule", "[", "0", "]">>

\* $.spec.schedule[-1].x
PScheduleLastX == <<"$", ".", "spec", ".", "schedule", "[", "-", "1", "]", ".", "x">>

\* $.metadata.creationTimestamp[0]
PCreationTimestamp0 == <<"$", ".", "metadata", ".", "creationTimestamp", "[", "0", "]">>

\* config.PathValue
PathValue(p, v) == [Path |-> p, Value |-> v]

InvalidPaths == {PNoDollar, PEmpty, PAt, PBadIndex}

Edits ==
  {PathValue(PLabelsApp, VString), PathValue(PLabels, VObject),
   PathValue(PLabelsApp, VArray), PathValue(PLabels, VArray1),
   PathValue(PLabels, VString), PathValue(PLabels, VNull),
   PathValue(PSchedule0, VString), PathValue(PScheduleLastX, VString),
   PathValue(PCreationTimestamp0, VString),
   PathValue(PLabelsApp, VInt), PathValue(PParallelism, VString),
   PathValue(PTemplates, VArray), PathValue(PTemplates, VEmptyArray),
   PathValue(PTemplate0Name, VName), PathValue(PTemplate2Name, VString),
   PathValue(PPodLabelsApp, VString),
   PathValue(PTemplateLastName, VString), PathValue(PTemplateMinus5Name, VString),
   PathValue(PContainerArgs, VArray1), PathValue(PContainerArgs0, VString),
   PathValue(PArgs, VArray1),
   PathValue(PArgs0, VString), PathValue(PArgs2, VInt), PathValue(PArgs2, VArray),
   PathValue(PArgsLast, VNull), PathValue(PArgsMinus5, VString)}
  \cup {PathValue(p, VString) : p \in InvalidPaths}
  \cup {PathValue(PEmpty, VArray), PathValue(PBadIndex, VArray)}

\* the longest edit list handed to ApplyPaths
MaxEdits == 2

\* the record of the tests: only apiVersion and kind are set
BaseEmpty ==
  [Zero(TCronWorkflow) EXCEPT ![<<"apiVersion">>] = <<"argoproj.io/v1alpha1">>,
                              ![<<"kind">>] = <<"CronWorkflow">>]

\* a record with labels, a schedule and two templates, the first with arguments
BaseFilled ==
  [BaseEmpty EXCEPT
     ![<<"metadata">>] = [@ EXCEPT ![<<"name">>] = <<"cw">>,
                                   ![<<"labels">>] = GoMap(<<"app">> :> <<"old">>)],
     ![<<"spec">>] =
        [@ EXCEPT ![<<"schedule">>] = <<"0 0 * * *">>,
                  ![<<"workflowSpec">>] =
                     [@ EXCEPT ![<<"templates">>] =
                        Slice(<<[Zero(TTemplate) EXCEPT
                                   ![<<"name">>] = <<"t0">>,
                                   ![<<"container">>] =
                                      Ptr([Zero(TContainer) EXCEPT
                                             ![<<"name">>] = <<"main">>,
                                             ![<<"args">>] = Slice(<< <<"p">>, <<"q">> >>)])],
                                [Zero(TTemplate) EXCEPT ![<<"name">>] = <<"t1">>]>>)]]]

BaseRecords == {BaseEmpty, BaseFilled}

-----------------------------------------------------------------------------
(* ApplyPaths as a state machine.  The caller builds the edit list (pc =   *)
(* "build"); ApplyPaths encodes the record, runs the loop over the edits   *)
(* (pc = "loop") and decodes the tree into the record (pc = "done").       *)

NoTree == << >>

NoLiteral == <<"(none)">>

NotConverted == [t |-> "(none)"]

NoPath == <<"(none)">>

NoResult == [v |-> << >>, ok |-> TRUE]

NoCalls == << >>

\* no concurrent invocation is under way
ConcIdle == calls = NoCalls /\ cells = NoCalls

NoFile == [t |-> "absent"]
NoUpdate == [called |-> FALSE]
KustIdle == files = NoFile /\ update = NoUpdate

NoUnit == << >>
RunIdle ==
  /\ unit = NoUnit /\ valueIdx = 0 /\ sameFilenameCounter = << >>
  /\ outputs = << >> /\ runErr = "idle"

NoPointer == [none |-> TRUE]
MergeIdle ==
  /\ mergeDst = NoPointer /\ mergeSrc = NoPointer
  /\ mergePc = "idle" /\ dstBefore = NoPointer

NotParsed == [none |-> TRUE]
ParseIdle == pathText = NoPath /\ parseOut = NotParsed

OthersIdle == ConcIdle /\ KustIdle /\ RunIdle /\ MergeIdle /\ ParseIdle

\* no single ApplyPaths call, coercion or round trip is under way
ApplyIdle ==
  /\ target = << >>
  /\ baseCW = << >>
  /\ paths = << >>
  /\ targetMap = NoTree
  /\ prevMap = NoTree
  /\ i = 0
  /\ pc = "idle"
  /\ err = NoErr
  /\ literal = NoLiteral
  /\ converted = NotConverted
  /\ errPath = NoPath
  /\ result = NoResult

\* the path of edit k, as the first edit's path
WrappedPathOfFirst(k) == paths[1].Path

\* "failed to apply path %s: %w": the path the error of edit k is wrapped with
WrappedPath(k) == paths[k].Path

Init ==
  /\ target \in BaseRecords
  /\ paths = << >>
  /\ targetMap = NoTree
  /\ prevMap = NoTree
  /\ i = 0
  /\ pc = "build"
  /\ err = NoErr
  /\ literal = NoLiteral
  /\ converted = NotConverted
  /\ errPath = NoPath
  /\ result = NoResult
  /\ baseCW = target
  /\ OthersIdle

\* the caller appends an edit to the list
AddEdit(pv) ==
  /\ pc = "build"
  /\ Len(paths) < MaxEdits
  /\ paths' = Append(paths, pv)
  /\ UNCHANGED <<target, targetMap, prevMap, i, pc, err, literal, converted, errPath, result, baseCW>>
  /\ UNCHANGED otherVars

\* ApplyPaths, up to the loop: nothing to apply, or the record encoded
ApplyPathsBegin ==
  /\ pc = "build"
  /\ IF Len(paths) = 0
       THEN /\ pc' = "done"
            /\ UNCHANGED <<targetMap, prevMap, i>>
       ELSE /\ pc' = "loop"
            /\ targetMap' = structToMap(target)
            /\ prevMap' = structToMap(target)
            /\ i' = 1
  /\ UNCHANGED <<target, paths, err, literal, converted, errPath, result, baseCW>>
  /\ UNCHANGED otherVars

\* one iteration of the loop: the edit applied, or ApplyPaths returning its error
ApplyPathsEdit ==
  /\ pc = "loop"
  /\ i <= Len(paths)
  /\ LET Applied(r) ==
           /\ prevMap' = targetMap
           /\ targetMap' = r.m
           /\ IF r.err = NoErr
                THEN /\ i' = i + 1
                     /\ UNCHANGED <<pc, err, errPath>>
                ELSE /\ pc' = "done"
                     /\ err' = r.err
                     /\ errPath' = IF r.err.kind = "panic" THEN NoPath ELSE WrappedPath(i)
                     /\ UNCHANGED i
     IN Applied(setValueAtPath(targetMap, paths[i].Path, paths[i].Value))
  /\ UNCHANGED <<target, paths, literal, converted, result, baseCW>>
  /\ UNCHANGED otherVars

\* after the loop: the tree decoded into the record
ApplyPathsFinish ==
  /\ pc = "loop"
  /\ i > Len(paths)
  /\ LET Decoded(r) ==
           /\ target' = r.v
           /\ err' = IF r.ok THEN NoErr ELSE ErrDecode
     IN Decoded(mapToStruct(targetMap, target))
  /\ baseCW' = IF Marshalable(Map(targetMap))
                 THEN Aliased(TCronWorkflow, Map(targetMap), baseCW)
                 ELSE baseCW
  /\ pc' = "done"
  /\ UNCHANGED <<paths, targetMap, prevMap, i, literal, converted, errPath, result>>
  /\ UNCHANGED otherVars

Next ==
  \/ \E pv \in Edits : AddEdit(pv)
  \/ ApplyPathsBegin
  \/ ApplyPathsEdit
  \/ ApplyPathsFinish

Spec == Init /\ [][Next]_vars

-----------------------------------------------------------------------------
(* Reading the run: the edit the loop has just applied (targetMap is the   *)
(* tree after it, prevMap the tree before it) or has just failed on.       *)

EditApplied == pc = "loop" /\ i > 1

EditFailed == pc = "done" /\ err \notin {NoErr, ErrDecode}

EditProcessed == EditApplied \/ EditFailed

LastEdit == IF EditFailed THEN paths[i] ELSE paths[i - 1]

Parses(pv) == parseJSONPath(pv.Path).ok

Segments(pv) == parseJSONPath(pv.Path).segs

KeyOnly(seg) == PathSegment(seg.Key, FALSE, 0)

Absent == [st |-> "absent", v |-> Null]

Blocked == [st |-> "blocked", v |-> Null]

\* What the segments address from the mapping m: a value that is there
\* ("found"), nothing yet ("absent": a key is missing, an index is past the
\* end, or an element on the way is no mapping and gives way to a new one), or
\* something an edit cannot pass ("blocked": a key on the way holds no mapping,
\* an indexed key holds no sequence, a negative index is before the start)
RECURSIVE Reach(_, _)
Reach(m, segs) ==
  LET seg == Head(segs)
      here == m[seg.Key]
      n == IF seg.ArrayIndex < 0 THEN Len(here.a) + seg.ArrayIndex ELSE seg.ArrayIndex
      elem == IF seg.HasIndex THEN here.a[n + 1] ELSE here
  IN IF seg.Key \notin DOMAIN m THEN Absent
     ELSE IF seg.HasIndex /\ ~IsArr(here) THEN Blocked
     ELSE IF seg.HasIndex /\ n < 0 THEN Blocked
     ELSE IF seg.HasIndex /\ n >= Len(here.a) THEN Absent
     ELSE IF Len(segs) = 1 THEN [st |-> "found", v |-> elem]
     ELSE IF IsMap(elem) THEN Reach(elem.m, Tail(segs))
     ELSE IF seg.HasIndex THEN Absent
     ELSE Blocked

\* what the sequence key of segment k holds in the tree
AtKey(tree, segs, k) == Reach(tree, Sub(segs, 1, k - 1) \o <<KeyOnly(segs[k])>>)

\* the sequence there; absent counts as empty
SeqAt(tree, segs, k) ==
  LET at == AtKey(tree, segs, k)
  IN IF at.st = "found" /\ IsArr(at.v) THEN at.v.a ELSE << >>

Max(a, b) == IF a >= b THEN a ELSE b

Templates(tree) == tree[<<"spec">>].m[<<"workflowSpec">>].m[<<"templates">>]

ContainerArgs(tree) == Templates(tree).a[1].m[<<"container">>].m[<<"args">>]

\* the tree after the first n edits of the list, applied one after the other
RECURSIVE TreeAfter(_)
TreeAfter(n) ==
  IF n = 0 THEN structToMap(target)
  ELSE setValueAtPath(TreeAfter(n - 1), paths[n].Path, paths[n].Value).m

\* an edit that assigns an array literal to a path whose last segment has no index
IsWholeArrayEdit(pv) ==
  LET parsed == parseJSONPath(pv.Path)
  IN /\ IsArr(convertValue(pv.Value))
     /\ parsed.ok
     /\ Len(parsed.segs) >= 1
     /\ ~parsed.segs[Len(parsed.segs)].HasIndex

-----------------------------------------------------------------------------
(* Properties of ApplyPaths *)

\* C1: the edits are applied in list order, and after an edit that assigns an
\* array literal to a sequence path without an index the sequence there is
\* exactly that array, whatever earlier edits wrote to its elements.
LaterWholeArrayEditSupersedes ==
  /\ pc = "loop" => targetMap = TreeAfter(i - 1)
  /\ (EditApplied /\ IsWholeArrayEdit(LastEdit)) =>
       Reach(targetMap, Segments(LastEdit)) =
         [st |-> "found", v |-> convertValue(LastEdit.Value)]

\* an element write to the arguments, then the whole sequence assigned: the
\* tree held ["x", "q"] and now holds ["z"]
ElementWriteThenWholeArray ==
  /\ EditApplied /\ i = 3
  /\ paths = <<PathValue(PContainerArgs0, VString), PathValue(PContainerArgs, VArray1)>>
  /\ ContainerArgs(prevMap) = Arr(<<Str(<<"x">>), Str(<<"q">>)>>)
  /\ ContainerArgs(targetMap) = Arr(<<Str(<<"z">>)>>)

WholeArrayThenElement ==
  /\ EditApplied /\ i = 3
  /\ paths = <<PathValue(PTemplates, VArray), PathValue(PTemplate0Name, VName)>>

\* C2, as the code has it: after templates = ["x","y"] and then
\* templates[0].name = "a", templates still has its two elements: element 0 is
\* the mapping {name: a} that took the place of "x", element 1 is still "y".
ElementEditKeepsArrayLength ==
  WholeArrayThenElement =>
    Templates(targetMap) = Arr(<<Map(<<"name">> :> Str(<<"a">>)), Str(<<"y">>)>>)

\* C2 as stated: after the two edits templates[0].name is "a" and templates
\* has length 1.
ElementEditLeavesOneElement ==
  WholeArrayThenElement =>
    /\ Templates(targetMap).a[1].m[<<"name">>] = Str(<<"a">>)
    /\ Len(Templates(targetMap).a) = 1

\* the two edits of C2 applied, the first having stored ["x", "y"]
WholeArrayThenElementApplied ==
  WholeArrayThenElement /\ Templates(prevMap) = Arr(<<Str(<<"x">>), Str(<<"y">>)>>)

\* the segments of a path that carry a negative index
NegativeSegments(segs) == {k \in 1..Len(segs) : segs[k].IsNegative}

\* the elements of `after` at the positions of `before`, position p (from 0)
\* apart, are those of `before`
SameExceptAt(before, after, p) ==
  \A j \in 1..Len(before) : j # p + 1 => (j <= Len(after) /\ after[j] = before[j])

\* C3: an edit through key[i] with i < 0 that is applied had a sequence of
\* length L > 0 with L + i >= 0 at key; the sequence still has length L, the
\* write went to position L + i (the coerced value for the last segment, a
\* mapping for an earlier one) and every other element is as before.
NegativeIndexAddressesExistingElement ==
  (EditApplied /\ Parses(LastEdit)) =>
    LET segs == Segments(LastEdit)
    IN \A k \in NegativeSegments(segs) :
         LET before == SeqAt(prevMap, segs, k)
             after == SeqAt(targetMap, segs, k)
             p == Len(before) + segs[k].ArrayIndex
         IN /\ Len(before) > 0
            /\ p >= 0
            /\ Len(after) = Len(before)
            /\ SameExceptAt(before, after, p)
            /\ IF k = Len(segs)
                 THEN after[p + 1] = convertValue(LastEdit.Value)
                 ELSE IsMap(after[p + 1])

\* templates has two elements and templates[-1].name is written: element 1
\* gets the name and there is no third element
LastTemplateOverwritten ==
  /\ EditApplied
  /\ LastEdit = PathValue(PTemplateLastName, VString)
  /\ Len(Templates(prevMap).a) = 2
  /\ Templates(prevMap).a[2].m[<<"name">>] # Str(<<"x">>)
  /\ Len(Templates(targetMap).a) = 2
  /\ Templates(targetMap).a[2].m[<<"name">>] = Str(<<"x">>)

FirstNegative(segs) ==
  CHOOSE k \in NegativeSegments(segs) : \A j \in NegativeSegments(segs) : k <= j

NegativeIndexErrors ==
  {"cannot use negative index on empty array",
   "negative index is out of bounds for array of length"}

\* C4: for an edit through key[i] with i < 0 (its first such segment): when
\* the sequence at key is absent or empty the edit fails with the empty-array
\* error; when it has length L > 0 and L + i < 0 the edit fails with the
\* out-of-bounds error reporting i and L; when L > 0 and L + i >= 0 (and no
\* later segment has a negative index) the edit fails with neither.
NegativeIndexFailures ==
  (EditProcessed /\ Parses(LastEdit) /\ NegativeSegments(Segments(LastEdit)) # {}) =>
    LET segs == Segments(LastEdit)
        k == FirstNegative(segs)
        index == segs[k].ArrayIndex
        at == AtKey(prevMap, segs, k)
        L == Len(at.v.a)
    IN /\ (at.st = "absent" \/ (at.st = "found" /\ IsArr(at.v) /\ L = 0)) =>
            (EditFailed /\ err = ErrNegativeOnEmpty(index))
       /\ (at.st = "found" /\ IsArr(at.v) /\ L > 0 /\ L + index < 0) =>
            /\ EditFailed
            /\ err.kind = "negative index is out of bounds for array of length"
            /\ err.index = index
            /\ err.length = L
       /\ (at.st = "found" /\ IsArr(at.v) /\ L > 0 /\ L + index >= 0
           /\ NegativeSegments(segs) = {k}) =>
            err.kind \notin NegativeIndexErrors

\* templates[-5] on a sequence of one element: the error reports -5 and 1
MinusFiveOnOneElement ==
  /\ EditFailed
  /\ LastEdit.Path = PTemplateMinus5Name
  /\ Len(SeqAt(prevMap, Segments(LastEdit), 3)) = 1
  /\ err.kind = "negative index is out of bounds for array of length"
  /\ err.index = 0 - 5
  /\ err.length = 1

\* the mappings along the path keep every key they had, gain at most the
\* key of the path, and a mapping made on the way holds that key alone
RECURSIVE KeptAlong(_, _, _)
KeptAlong(before, after, segs) ==
  LET key == Head(segs).Key
  IN /\ DOMAIN after = (DOMAIN before) \cup {key}
     /\ \A x \in (DOMAIN before) \ {key} : after[x] = before[x]
     /\ Len(segs) > 1 =>
          /\ IsMap(after[key])
          /\ KeptAlong(IF key \in DOMAIN before /\ IsMap(before[key]) THEN before[key].m ELSE << >>,
                       after[key].m, Tail(segs))

HasNoIndex(segs) == \A k \in 1..Len(segs) : ~segs[k].HasIndex

\* C5: an applied edit whose path has only non-indexed segments leaves the
\* coerced value at the path, with an empty mapping made at every key that was
\* missing on the way and every other key of the traversed mappings kept.
MissingMappingsAreCreated ==
  (EditApplied /\ Parses(LastEdit)) =>
    LET segs == Segments(LastEdit)
    IN (HasNoIndex(segs) /\ Len(segs) >= 1) =>
         /\ Reach(targetMap, segs) = [st |-> "found", v |-> convertValue(LastEdit.Value)]
         /\ KeptAlong(prevMap, targetMap, segs)

\* $.metadata.labels.app = "x" on the empty record, which has no labels: the
\* tree gets metadata.labels = {app: x} and metadata keeps what it had
LabelsCreatedOnEmptyRecord ==
  /\ EditApplied /\ i = 2
  /\ target = BaseEmpty
  /\ paths[1] = PathValue(PLabelsApp, VString)
  /\ <<"labels">> \notin DOMAIN prevMap[<<"metadata">>].m
  /\ <<"creationTimestamp">> \in DOMAIN targetMap[<<"metadata">>].m
  /\ targetMap[<<"metadata">>].m[<<"labels">>] = Map(<<"app">> :> Str(<<"x">>))

\* the segments before the last that carry an index >= 0
PositiveIntermediateSegments(segs) ==
  {k \in 1..(Len(segs) - 1) : segs[k].HasIndex /\ ~segs[k].IsNegative}

\* C6: an applied edit that goes through key[i], i >= 0, before its last
\* segment leaves the sequence at key with length max(L, i + 1), L being its
\* length before (0 when absent): the positions from L up to i - 1 hold empty
\* mappings, position i holds a mapping, every other element is as before.
IntermediateIndexExtendsWithMappings ==
  (EditApplied /\ Parses(LastEdit)) =>
    LET segs == Segments(LastEdit)
    IN \A k \in PositiveIntermediateSegments(segs) :
         LET before == SeqAt(prevMap, segs, k)
             after == SeqAt(targetMap, segs, k)
             index == segs[k].ArrayIndex
         IN /\ Len(after) = Max(Len(before), index + 1)
            /\ \A j \in (Len(before) + 1)..index : after[j] = EmptyMap
            /\ IsMap(after[index + 1])
            /\ SameExceptAt(before, after, index)

\* templates[0].name then templates[2].name on the empty record: three
\* elements, the middle one empty, the others carrying the names
ThirdTemplateAfterFirst ==
  /\ EditApplied /\ i = 3
  /\ target = BaseEmpty
  /\ paths = <<PathValue(PTemplate0Name, VName), PathValue(PTemplate2Name, VString)>>
  /\ Templates(targetMap) = Arr(<<Map(<<"name">> :> Str(<<"a">>)), EmptyMap,
                                  Map(<<"name">> :> Str(<<"x">>))>>)

\* C7: an applied edit whose last segment is key[i], i >= 0, leaves the
\* sequence at key with length max(L, i + 1), L being its length before (0
\* when absent): position i holds the coerced value, the positions from L up
\* to i - 1 hold null, every other element is as before.
TerminalIndexExtendsWithNulls ==
  (EditApplied /\ Parses(LastEdit)) =>
    LET segs == Segments(LastEdit)
        k == Len(segs)
        before == SeqAt(prevMap, segs, k)
        after == SeqAt(targetMap, segs, k)
        index == segs[k].ArrayIndex
    IN (k >= 1 /\ segs[k].HasIndex /\ index >= 0) =>
         /\ Len(after) = Max(Len(before), index + 1)
         /\ after[index + 1] = convertValue(LastEdit.Value)
         /\ \A j \in (Len(before) + 1)..index : after[j] = Null
         /\ SameExceptAt(before, after, index)

\* $.spec.args[2] = "5" on a sequence of one element: ["z", null, 5]
ThirdArgumentAfterFirst ==
  /\ EditApplied /\ i = 3
  /\ paths = <<PathValue(PArgs, VArray1), PathValue(PArgs2, VInt)>>
  /\ prevMap[<<"spec">>].m[<<"args">>] = Arr(<<Str(<<"z">>)>>)
  /\ targetMap[<<"spec">>].m[<<"args">>] = Arr(<<Str(<<"z">>), Null, Int64(FALSE, <<"5">>)>>)

\* the errors that reject the path itself: the parser's, and the compiler's
InvalidPathErrors == {ErrInvalidPath.kind, ErrInvalidIndex(<< >>).kind, ErrCompile(<< >>).kind}

StartsWithDollar(path) == Len(path) >= 1 /\ path[1] = "$"

\* C9 as stated: an edit whose path does not start with '$' (the empty path
\* included) fails with an invalid-path error, whatever its value is, and
\* leaves the tree as it was.
PathWithoutDollarIsRejected ==
  (EditProcessed /\ ~StartsWithDollar(LastEdit.Path)) =>
    /\ EditFailed
    /\ err.kind \in InvalidPathErrors
    /\ targetMap = prevMap

\* the empty path with a value that is no array: the compiler of the path
\* library indexes its empty token list, and the call does not return
EmptyPathPanics ==
  /\ EditFailed
  /\ LastEdit = PathValue(PEmpty, VString)
  /\ err = Panic(<<"Compile">>)

\* the text between the bracket at position k of the path and the next ']'
BracketText(path, k) ==
  Sub(path, k + 1,
      IF \E j \in (k + 1)..Len(path) : path[j] = "]"
        THEN (CHOOSE j \in (k + 1)..Len(path) :
                path[j] = "]" /\ \A h \in (k + 1)..(j - 1) : path[h] # "]") - 1
        ELSE Len(path))

IsDecimalIndex(text) ==
  LET digits == IF HasPrefix(text, "-") THEN Tail(text) ELSE text
  IN digits # << >> /\ AllDigits(digits)

HasNonNumericIndex(path) ==
  \E k \in 1..Len(path) : path[k] = "[" /\ ~IsDecimalIndex(BracketText(path, k))

\* the keys of the tree and of everything below it
RECURSIVE KeysOf(_)
KeysOf(v) ==
  IF IsMap(v) THEN (DOMAIN v.m) \cup UNION {KeysOf(v.m[x]) : x \in DOMAIN v.m}
  ELSE IF IsArr(v) THEN UNION {KeysOf(v.a[n]) : n \in 1..Len(v.a)}
  ELSE {}

\* C10 as stated: an edit whose path has a segment with a non-numeric
\* bracketed index fails with an invalid-path error, whatever its value is, and
\* the bracketed segment never becomes a key of the tree.
NonNumericIndexIsRejected ==
  (EditProcessed /\ HasNonNumericIndex(LastEdit.Path)) =>
    /\ EditFailed
    /\ err.kind \in InvalidPathErrors
    /\ \A key \in KeysOf(Map(targetMap)) : ~Contains(key, "[")

\* $.spec.templates[abc].name with an array literal: the edit is applied and
\* spec has the key "templates[abc]"
BracketedSegmentBecomesKey ==
  /\ EditApplied
  /\ LastEdit = PathValue(PBadIndex, VArray)
  /\ <<"templates", "[", "abc", "]">> \notin DOMAIN prevMap[<<"spec">>].m
  /\ targetMap[<<"spec">>].m[<<"templates", "[", "abc", "]">>] =
       Map(<<"name">> :> convertValue(VArray))

\* C11: when edit i of the list fails with an error, the edits before it were
\* all applied, the tree is what the edits up to i left (no later edit is
\* processed), and the error ApplyPaths returns names the path of edit i.
StopsAtFirstFailingEdit ==
  (EditFailed /\ err.kind # "panic") =>
    /\ i \in 1..Len(paths)
    /\ errPath = paths[i].Path
    /\ targetMap = TreeAfter(i)
    /\ \A k \in 1..(i - 1) :
         setValueAtPath(TreeAfter(k - 1), paths[k].Path, paths[k].Value).err = NoErr

\* the first of two edits failed, and the second one has another path
FirstOfTwoEditsFailed ==
  /\ EditFailed
  /\ err.kind # "panic"
  /\ i = 1
  /\ Len(paths) = 2
  /\ paths[2].Path # paths[1].Path
  /\ errPath = paths[1].Path
  /\ targetMap = TreeAfter(1)

\* C12 as stated: whenever ApplyPaths returns an error, be it from an edit or
\* from decoding the tree, the caller's record is the same as before the call.
ErrorLeavesTargetUntouched ==
  [][(pc' = "done" /\ err' # NoErr) => target' = target]_vars

\* the tree could not be decoded, and the caller's record has changed all the
\* same: the label of the first edit is in it
DecodeFailedTargetChanged ==
  /\ pc = "done"
  /\ err = ErrDecode
  /\ paths = <<PathValue(PLabelsApp, VString), PathValue(PTemplates, VArray)>>
  /\ target \notin BaseRecords
  /\ target[<<"metadata">>][<<"labels">>] = GoMap(<<"app">> :> <<"x">>)

\* the first half of C13: ApplyPaths with an empty list returns no error and
\* leaves the record as it was
EmptyListLeavesRecord ==
  [][(pc = "build" /\ paths = << >> /\ pc' = "done") => (err' = NoErr /\ target' = target)]_vars

ArrayLandsWhereTheLastSegmentSays ==
  (EditApplied /\ IsArr(convertValue(LastEdit.Value)) /\ Parses(LastEdit)) =>
    LET segs == Segments(LastEdit)
        n == Len(segs)
        before == SeqAt(prevMap, segs, n)
        after == SeqAt(targetMap, segs, n)
    IN n >= 1 =>
         /\ Reach(targetMap, segs) = [st |-> "found", v |-> convertValue(LastEdit.Value)]
         /\ (segs[n].HasIndex /\ ~segs[n].IsNegative) =>
              /\ Len(after) = Max(Len(before), segs[n].ArrayIndex + 1)
              /\ after[segs[n].ArrayIndex + 1] = convertValue(LastEdit.Value)
              /\ \A k \in 1..Len(before) : k # segs[n].ArrayIndex + 1 => after[k] = before[k]

\* spec.args[2] = ["x","y"] and templates[0].container.args = ["z"] on the
\* filled record: the first array is the third element of spec.args, the
\* second is the whole of the container's arguments, which were [p, q]
ArrayAsElementAndArrayAsValue ==
  /\ EditApplied /\ i = 3
  /\ target = BaseFilled
  /\ paths = <<PathValue(PArgs2, VArray), PathValue(PContainerArgs, VArray1)>>
  /\ targetMap[<<"spec">>].m[<<"args">>] =
       Arr(<<Null, Null, Arr(<<Str(<<"x">>), Str(<<"y">>)>>)>>)
  /\ ContainerArgs(prevMap) = Arr(<<Str(<<"p">>), Str(<<"q">>)>>)
  /\ ContainerArgs(targetMap) = Arr(<<Str(<<"z">>)>>)

\* the segments before the last that have no index and whose key holds, in
\* the tree, a value that is no mapping
BlockingSegments(tree, segs) ==
  {k \in 1..(Len(segs) - 1) :
     /\ ~segs[k].HasIndex
     /\ Reach(tree, Sub(segs, 1, k)).st = "found"
     /\ ~IsMap(Reach(tree, Sub(segs, 1, k)).v)}

\* C17: an edit, of a scalar or of an array, whose path goes through a key
\* without index that holds a string, a null or a sequence fails with the
\* not-a-map error for that key, and the key holds afterwards what it held.
NonMappingOnTheWayIsAnError ==
  (EditProcessed /\ Parses(LastEdit)) =>
    LET segs == Segments(LastEdit)
    IN \A k \in BlockingSegments(prevMap, segs) :
         /\ EditFailed
         /\ err.kind = "path segment is not a map"
         /\ err.key = segs[k].Key
         /\ Reach(targetMap, Sub(segs, 1, k)) = Reach(prevMap, Sub(segs, 1, k))

\* the labels were set to the sequence ["z"], then an array was assigned to
\* $.metadata.labels.app: the edit failed and the labels are still ["z"]
ArrayEditThroughASequenceFailed ==
  /\ EditFailed /\ i = 2
  /\ paths = <<PathValue(PLabels, VArray1), PathValue(PLabelsApp, VArray)>>
  /\ err.kind = "path segment is not a map"
  /\ err.key = <<"labels">>
  /\ targetMap[<<"metadata">>].m[<<"labels">>] = Arr(<<Str(<<"z">>)>>)

\* the segments with an index whose key holds, in the tree, a value that is
\* no sequence
NonSequenceSegments(tree, segs) ==
  {k \in 1..Len(segs) :
     /\ segs[k].HasIndex
     /\ AtKey(tree, segs, k).st = "found"
     /\ ~IsArr(AtKey(tree, segs, k).v)}

\* C18 as stated: an edit whose path has a segment key[i], last or not, i
\* negative or not, where the key holds a value that is no sequence fails with
\* the not-an-array error for that key, and the key holds afterwards what it
\* held.
NonSequenceUnderIndexIsAnError ==
  (EditProcessed /\ Parses(LastEdit)) =>
    LET segs == Segments(LastEdit)
    IN \A k \in NonSequenceSegments(prevMap, segs) :
         /\ EditFailed
         /\ err.kind = "key exists but is not an array"
         /\ err.key = segs[k].Key
         /\ AtKey(targetMap, segs, k) = AtKey(prevMap, segs, k)

\* the same for a key that holds a string, a number, a boolean or a mapping
NonNullUnderIndexIsAnError ==
  (EditProcessed /\ Parses(LastEdit)) =>
    LET segs == Segments(LastEdit)
    IN \A k \in NonSequenceSegments(prevMap, segs) :
         AtKey(prevMap, segs, k).v # Null =>
           /\ EditFailed
           /\ err.kind = "key exists but is not an array"
           /\ err.key = segs[k].Key
           /\ AtKey(targetMap, segs, k) = AtKey(prevMap, segs, k)

\* $.metadata.creationTimestamp[0] = "x" on the record of the tests, whose
\* tree holds creationTimestamp: null: the lookup of the library panics
IndexOnNullPanics ==
  /\ EditFailed /\ i = 1
  /\ target = BaseEmpty
  /\ paths = <<PathValue(PCreationTimestamp0, VString)>>
  /\ prevMap[<<"metadata">>].m[<<"creationTimestamp">>] = Null
  /\ err.kind = "panic"

\* $.spec.schedule[0] = "x" on a record whose schedule is a string
IndexOnStringIsAnError ==
  /\ EditFailed /\ i = 1
  /\ target = BaseFilled
  /\ paths = <<PathValue(PSchedule0, VString)>>
  /\ err = ErrNotAnArray(<<"schedule">>)
  /\ targetMap = prevMap

\* C19 as stated: after ApplyPaths applied its edits and returned no error,
\* the record is the final tree decoded into a fresh, zero-valued record.
ResultIsTheTreeDecodedAfresh ==
  (pc = "done" /\ err = NoErr /\ paths # << >>) =>
    target = mapToStruct(targetMap, Zero(TCronWorkflow)).v

\* $.metadata.labels = {"k":"v"} on the filled record, whose labels were
\* {app: old}: ApplyPaths returned no error, the tree holds the new labels
\* alone, and the record holds both entries
ReplacedLabelsKeepOldEntry ==
  /\ pc = "done" /\ err = NoErr
  /\ paths = <<PathValue(PLabels, VObject)>>
  /\ targetMap[<<"metadata">>].m[<<"labels">>] = Map(<<"k">> :> Str(<<"v">>))
  /\ target[<<"metadata">>][<<"labels">>] = GoMap(<<"app">> :> <<"old">> @@ <<"k">> :> <<"v">>)

\* the tree holds, at a field of the type, a value of a kind the field cannot
\* hold: no string at a string, no boolean at a boolean, no number at an
\* integer, no mapping of strings at a map, no sequence at a slice, no
\* mapping at a struct; a null is held by every field
RECURSIVE KindMismatch(_, _)
KindMismatch(ty, tree) ==
  IF tree.t = "null" THEN FALSE
  ELSE CASE ty.k = "string" -> tree.t # "str"
         [] ty.k = "bool" -> tree.t # "bool"
         [] ty.k = "int64" -> tree.t \notin {"int", "float"}
         [] ty.k = "time" -> tree.t # "str"
         [] ty.k = "ptr" -> KindMismatch(ty.e, tree)
         [] ty.k = "slice" ->
              tree.t # "arr" \/ \E n \in 1..Len(tree.a) : KindMismatch(ty.e, tree.a[n])
         [] ty.k = "map" ->
              tree.t # "map" \/ \E n \in DOMAIN tree.m : tree.m[n].t \notin {"str", "null"}
         [] ty.k = "struct" ->
              tree.t # "map" \/
              \E n \in (DOMAIN ty.f) \cap (DOMAIN tree.m) : KindMismatch(ty.f[n].ty, tree.m[n])

\* ApplyPaths applied every edit of a list that is not empty and returned
AllEditsApplied == pc = "done" /\ Len(paths) >= 1 /\ i > Len(paths)

\* C20: when every edit was applied and the final tree holds at some field a
\* value of a kind the field cannot hold, ApplyPaths returns the decode error.
KindMismatchIsADecodeError ==
  (AllEditsApplied /\ KindMismatch(TCronWorkflow, Map(targetMap))) => err = ErrDecode

\* the number 5 was written to the label app and the string "x" to
\* parallelism: ApplyPaths returned the decode error
NumberInStringAndStringInNumber ==
  /\ AllEditsApplied
  /\ paths = <<PathValue(PLabelsApp, VInt), PathValue(PParallelism, VString)>>
  /\ targetMap[<<"metadata">>].m[<<"labels">>].m[<<"app">>] = Int64(FALSE, <<"5">>)
  /\ targetMap[<<"spec">>].m[<<"workflowSpec">>].m[<<"parallelism">>] = Str(<<"x">>)
  /\ err = ErrDecode

\* the tree holds, in a mapping decoded into a struct, a key that is no field
\* of the struct
RECURSIVE HasUnknownKey(_, _)
HasUnknownKey(ty, tree) ==
  CASE ty.k = "ptr" -> HasUnknownKey(ty.e, tree)
    [] ty.k = "slice" ->
         tree.t = "arr" /\ \E n \in 1..Len(tree.a) : HasUnknownKey(ty.e, tree.a[n])
    [] ty.k = "struct" ->
         tree.t = "map" /\
         \/ (DOMAIN tree.m) \ (DOMAIN ty.f) # {}
         \/ \E n \in (DOMAIN ty.f) \cap (DOMAIN tree.m) : HasUnknownKey(ty.f[n].ty, tree.m[n])
    [] OTHER -> FALSE

\* C21 as stated: when every edit was applied and the final tree holds a key
\* that is no field of the record, ApplyPaths returns an error.
UnknownKeyIsAnError ==
  (AllEditsApplied /\ HasUnknownKey(TCronWorkflow, Map(targetMap))) => err # NoErr

\* $.spec.args = ["z"] on the record of the tests: spec has no field args,
\* ApplyPaths returned no error and the record is as it was
UnknownKeyDroppedInSilence ==
  /\ AllEditsApplied
  /\ paths = <<PathValue(PArgs, VArray1)>>
  /\ targetMap[<<"spec">>].m[<<"args">>] = Arr(<<Str(<<"z">>)>>)
  /\ <<"args">> \notin DOMAIN TCronWorkflowSpec.f
  /\ err = NoErr
  /\ target = BaseEmpty

\* C23 as stated: ApplyPaths on a shallow copy of a base record never changes
\* the base record.
BaseIsNeverChanged ==
  [][baseCW' = baseCW]_vars

\* $.metadata.labels.app = "x" applied to a shallow copy of the filled record:
\* ApplyPaths returned no error and the label of the base is "x" as well
BaseLabelChangedThroughCopy ==
  /\ pc = "done" /\ err = NoErr
  /\ paths = <<PathValue(PLabelsApp, VString)>>
  /\ target[<<"metadata">>][<<"labels">>] = GoMap(<<"app">> :> <<"x">>)
  /\ baseCW[<<"metadata">>][<<"labels">>] = GoMap(<<"app">> :> <<"x">>)
  /\ baseCW[<<"metadata">>][<<"name">>] = <<"cw">>

-----------------------------------------------------------------------------
(* The value coercer on its own: a literal is drawn and Convert coerces it *)

Alphabet == {"-", "+", "0", "1", ".", "e", "[", "]", "{", "}", "n", "a", "i", "f"}

\* the longest literal drawn from the alphabet
MaxLitLen == 3

\* literals of the tests and of the boundaries of the number parsers
LongLiterals ==
  {<<"n", "u", "l", "l">>,
   <<"t", "r", "u", "e">>,
   <<"f", "a", "l", "s", "e">>,
   <<"h", "e", "l", "l", "o">>,
   <<"9", "9", "9", "9", "9", "9", "9", "9", "9", "9", "9", "9", "9", "9", "9", "9", "9", "9", "9", "9">>,
   <<"-", "9", "9", "9", "9", "9", "9", "9", "9", "9", "9", "9", "9", "9", "9", "9", "9", "9", "9", "9", "9">>,
   <<"9", "2", "2", "3", "3", "7", "2", "0", "3", "6", "8", "5", "4", "7", "7", "5", "8", "0", "7">>,
   <<"9", "2", "2", "3", "3", "7", "2", "0", "3", "6", "8", "5", "4", "7", "7", "5", "8", "0", "8">>,
   <<"-", "9", "2", "2", "3", "3", "7", "2", "0", "3", "6", "8", "5", "4", "7", "7", "5", "8", "0", "8">>,
   <<"-", "9", "2", "2", "3", "3", "7", "2", "0", "3", "6", "8", "5", "4", "7", "7", "5", "8", "0", "9">>,
   <<"+", "i", "n", "f">>,
   <<"-", "I", "n", "f">>,
   <<"I", "n", "f", "i", "n", "i", "t", "y">>,
   <<"N", "a", "N">>,
   <<"+", "n", "a", "n">>,
   <<"1", "e", "9", "9", "9">>,
   <<"-", "1", "e", "9", "9", "9">>,
   <<"1", "e", "-", "9", "9", "9">>,
   <<"1", "2", ".", "5">>,
   <<"1", "2", "3">>,
   <<"0", "x", "1", "0">>,
   <<" ", "5">>,
   <<"5", " ">>,
   <<"[", "1", ",", " ", "2", ",", " ", Quote, "t", "e", "s", "t", Quote, "]">>,
   <<"[", "1", ",", "2", ",", Quote, "t", "h", "r", "e", "e", Quote, "]">>,
   <<"{", Quote, "k", Quote, ":", Quote, "v", Quote, "}">>,
   <<"{", Quote, "k", "e", "y", Quote, ":", " ", Quote, "v", "a", "l", "u", "e", Quote, ",", " ", Quote, "n", "u", "m", "b", "e", "r", Quote, ":", " ", "4", "2", "}">>,
   <<"[", "i", "n", "v", "a", "l", "i", "d", " ", "j", "s", "o", "n">>,
   <<"{", "i", "n", "v", "a", "l", "i", "d">>,
   <<"[", "1", "e", "9", "9", "9", "]">>,
   <<"[", "1", "]", " ">>,
   <<"[", Quote, "a", Quote, ",", " ", "[", "t", "r", "u", "e", ",", " ", "n", "u", "l", "l", "]", ",", " ", "{", Quote, "b", Quote, ":", " ", "-", "0", ".", "5", "e", "1", "}", "]">>,
   <<"{", Quote, "k", Quote, ":", "1", ",", Quote, "k", Quote, ":", "2", "}">>}

Literals == (UNION {[1..n -> Alphabet] : n \in 0..MaxLitLen}) \cup LongLiterals

InitCoerce ==
  /\ literal \in Literals
  /\ converted = NotConverted
  /\ pc = "coerce"
  /\ target = BaseEmpty
  /\ paths = << >>
  /\ targetMap = NoTree
  /\ prevMap = NoTree
  /\ i = 0
  /\ err = NoErr
  /\ errPath = NoPath
  /\ result = NoResult
  /\ baseCW = target
  /\ OthersIdle

\* convertValue(literal)
Convert ==
  /\ pc = "coerce"
  /\ converted' = convertValue(literal)
  /\ pc' = "coerced"
  /\ UNCHANGED <<target, paths, targetMap, prevMap, i, err, literal, errPath, result, baseCW>>
  /\ UNCHANGED otherVars

NextCoerce == Convert

SpecCoerce == InitCoerce /\ [][NextCoerce]_vars

-----------------------------------------------------------------------------
(* Properties of convertValue *)

Coerced == pc = "coerced"

DecimalDigits(s) == s # << >> /\ AllDigits(s)

\* -?[0-9]+
IsDecimalInteger(s) == DecimalDigits(IF HasPrefix(s, "-") THEN Tail(s) ELSE s)

\* [+-]?[0-9]+
IsSignedInteger(s) ==
  DecimalDigits(IF HasPrefix(s, "-") \/ HasPrefix(s, "+") THEN Tail(s) ELSE s)

\* the digits of a signed integer literal, without sign and leading zeros
Magnitude(s) == StripZeros(IF HasPrefix(s, "-") \/ HasPrefix(s, "+") THEN Tail(s) ELSE s)

\* -2^63 <= the literal <= 2^63 - 1
FitsInt64(s) ==
  \/ Len(Magnitude(s)) < 19
  \/ /\ Len(Magnitude(s)) = 19
     /\ DigitsLeq(Magnitude(s), IF HasPrefix(s, "-") THEN MinInt64Digits ELSE MaxInt64Digits)

IntegerValue(s) == Int64(HasPrefix(s, "-") /\ Magnitude(s) # <<"0">>, Magnitude(s))

\* a decimal floating-point literal without its sign: digits with at most one
\* '.', at least one digit, and an optional exponent [eE][+-]?[0-9]+
MantissaOf(u) ==
  IF IndexOf(LowerSeq(u), "e") = 0 THEN u ELSE Sub(u, 1, IndexOf(LowerSeq(u), "e") - 1)

ExponentOf(u) ==
  IF IndexOf(LowerSeq(u), "e") = 0 THEN <<"0">> ELSE Sub(u, IndexOf(LowerSeq(u), "e") + 1, Len(u))

IntegerPart(u) ==
  IF IndexOf(MantissaOf(u), ".") = 0 THEN MantissaOf(u)
  ELSE Sub(MantissaOf(u), 1, IndexOf(MantissaOf(u), ".") - 1)

FractionPart(u) ==
  IF IndexOf(MantissaOf(u), ".") = 0 THEN << >>
  ELSE Sub(MantissaOf(u), IndexOf(MantissaOf(u), ".") + 1, Len(MantissaOf(u)))

IsDecimalFloat(u) ==
  /\ AllDigits(IntegerPart(u))
  /\ AllDigits(FractionPart(u))
  /\ IntegerPart(u) \o FractionPart(u) # << >>
  /\ IsSignedInteger(ExponentOf(u))

\* [+-]?(inf|infinity), nan, or a signed decimal floating-point literal
IsFloatLiteral(s) ==
  \/ LowerSeq(Unsigned(s)) \in {<<"i","n","f">>, <<"i","n","f","i","n","i","t","y">>}
  \/ LowerSeq(s) = <<"n","a","n">>
  \/ IsDecimalFloat(Unsigned(s))

\* the decimal exponent of the first significant digit of a decimal literal, plus one
PointPosition(u) ==
  Len(IntegerPart(u))
  + (IF HasPrefix(ExponentOf(u), "-") THEN 0 - ExpVal(Unsigned(ExponentOf(u)))
     ELSE ExpVal(Unsigned(ExponentOf(u))))
  - (Len(IntegerPart(u) \o FractionPart(u))
     - Len(StripAllLeadingZeros(IntegerPart(u) \o FractionPart(u))))

\* a finite decimal literal above the largest float64
ExceedsFloat64(s) ==
  /\ IsDecimalFloat(Unsigned(s))
  /\ StripAllLeadingZeros(IntegerPart(Unsigned(s)) \o FractionPart(Unsigned(s))) # << >>
  /\ \/ PointPosition(Unsigned(s)) > 309
     \/ /\ PointPosition(Unsigned(s)) = 309
        /\ ~DigitsLeq(Pad17(StripAllLeadingZeros(IntegerPart(Unsigned(s)) \o FractionPart(Unsigned(s)))),
                      MaxFloatDigits)

IsJSONArray(s) == HasPrefix(s, "[") /\ HasSuffix(s, "]") /\ Unmarshal(s, "arr").ok

IsJSONObject(s) == HasPrefix(s, "{") /\ HasSuffix(s, "}") /\ Unmarshal(s, "map").ok

-----------------------------------------------------------------------------
(* structToMap and back: a record is drawn, encoded to the generic tree and *)
(* the tree is decoded into a fresh record                                  *)

\* 2^53 + 1
TwoPow53PlusOne == Int64(FALSE, <<"9","0","0","7","1","9","9","2","5","4","7","4","0","9","9","3">>)

RecordWith(name, labels, templates, parallelism, suspend) ==
  [BaseEmpty EXCEPT
     ![<<"metadata">>] = [@ EXCEPT ![<<"name">>] = name, ![<<"labels">>] = labels],
     ![<<"spec">>] =
        [@ EXCEPT ![<<"suspend">>] = suspend,
                  ![<<"schedule">>] = <<"0 0 * * *">>,
                  ![<<"workflowSpec">>] =
                     [@ EXCEPT ![<<"templates">>] = templates,
                               ![<<"parallelism">>] = parallelism]]]

Records ==
  {RecordWith(name, labels, templates, parallelism, suspend) :
     name \in {<< >>, <<"test-cron">>},
     labels \in {Nil, GoMap(<< >>), GoMap(<<"app">> :> <<"test-app">>)},
     templates \in {Nil, Slice(<< >>),
                    Slice(<<[Zero(TTemplate) EXCEPT
                               ![<<"name">>] = <<"t0">>,
                               ![<<"container">>] = Ptr(Zero(TContainer))]>>)},
     parallelism \in {Nil, Ptr(Int64(FALSE, <<"3">>)), Ptr(TwoPow53PlusOne)},
     suspend \in BOOLEAN}

InitRoundTrip ==
  /\ target \in Records
  /\ pc = "original"
  /\ paths = << >>
  /\ targetMap = NoTree
  /\ prevMap = NoTree
  /\ i = 0
  /\ err = NoErr
  /\ literal = NoLiteral
  /\ converted = NotConverted
  /\ errPath = NoPath
  /\ result = NoResult
  /\ baseCW = target
  /\ OthersIdle

\* m, err := evaluator.structToMap(original)
StructToMap ==
  /\ pc = "original"
  /\ targetMap' = structToMap(target)
  /\ pc' = "map"
  /\ UNCHANGED <<target, paths, prevMap, i, err, literal, converted, errPath, result, baseCW>>
  /\ UNCHANGED otherVars

\* var result CronWorkflow; err = evaluator.mapToStruct(m, &result)
MapToStruct ==
  /\ pc = "map"
  /\ result' = mapToStruct(targetMap, Zero(TCronWorkflow))
  /\ pc' = "back"
  /\ UNCHANGED <<target, paths, targetMap, prevMap, i, err, literal, converted, errPath, baseCW>>
  /\ UNCHANGED otherVars

NextRoundTrip == StructToMap \/ MapToStruct

SpecRoundTrip == InitRoundTrip /\ [][NextRoundTrip]_vars

\* C13 as stated: encoding a record to the generic tree and decoding the tree
\* back yields, without error, a record equal to the first field for field
\* (and ApplyPaths with an empty list leaves the record alone).
RoundTripYieldsEqualRecord ==
  pc = "back" => (result.ok /\ result.v = target)

\* a record whose parallelism is 2^53 + 1 came back with 2^53
BigIntegerCameBackRounded ==
  /\ pc = "back"
  /\ result.ok
  /\ target[<<"spec">>][<<"workflowSpec">>][<<"parallelism">>] = Ptr(TwoPow53PlusOne)
  /\ result.v[<<"spec">>][<<"workflowSpec">>][<<"parallelism">>] = Ptr(Int64(FALSE, TwoPow53Digits))
  /\ target[<<"metadata">>][<<"labels">>] = Nil
  /\ target[<<"spec">>][<<"workflowSpec">>][<<"templates">>] = Nil


-----------------------------------------------------------------------------
(* Two ApplyPaths invocations on one PathEvaluator, each with its own record *)
(* and edit list, their steps interleaved.  The evaluator holds a logger and *)
(* nothing else; targetMap is a local of the invocation.                     *)

Procs == {1, 2}

\* the evaluator keeping one tree for all its invocations
TreeOfEvaluator(p) == 1

\* targetMap, err := pe.structToMap(target): the tree invocation p works on
TreeOf(p) == p

ConcEdits ==
  {PathValue(PLabelsApp, VString), PathValue(PLabelsApp, VInt), PathValue(PSchedule0, VString)}

RECURSIVE ListsUpTo(_, _)
ListsUpTo(S, n) ==
  IF n = 0 THEN {<< >>}
  ELSE ListsUpTo(S, n - 1) \cup {Append(l, e) : l \in ListsUpTo(S, n - 1), e \in S}

Call(base, edits) ==
  [base |-> base, target |-> base, paths |-> edits, i |-> 0, pc |-> "start", err |-> NoErr]

InitConcurrent ==
  /\ calls \in [Procs -> {Call(b, l) : b \in BaseRecords, l \in ListsUpTo(ConcEdits, MaxEdits)}]
  /\ cells = [p \in Procs |-> NoTree]
  /\ ApplyIdle
  /\ KustIdle /\ RunIdle /\ MergeIdle /\ ParseIdle

\* ApplyPaths of invocation p, up to the loop
CallBegin(p) ==
  /\ calls[p].pc = "start"
  /\ IF Len(calls[p].paths) = 0
       THEN /\ calls' = [calls EXCEPT ![p].pc = "done"]
            /\ UNCHANGED cells
       ELSE /\ calls' = [calls EXCEPT ![p].pc = "loop", ![p].i = 1]
            /\ cells' = [cells EXCEPT ![TreeOf(p)] = structToMap(calls[p].target)]
  /\ UNCHANGED <<applyVars, kustVars, runVars, mergeVars, parseVars>>

\* one iteration of the loop of invocation p
CallEdit(p) ==
  /\ calls[p].pc = "loop"
  /\ calls[p].i <= Len(calls[p].paths)
  /\ LET Applied(r) ==
           /\ cells' = [cells EXCEPT ![TreeOf(p)] = r.m]
           /\ calls' = IF r.err = NoErr
                          THEN [calls EXCEPT ![p].i = @ + 1]
                          ELSE [calls EXCEPT ![p].pc = "done", ![p].err = r.err]
     IN Applied(setValueAtPath(cells[TreeOf(p)], calls[p].paths[calls[p].i].Path,
                               calls[p].paths[calls[p].i].Value))
  /\ UNCHANGED <<applyVars, kustVars, runVars, mergeVars, parseVars>>

\* invocation p after its loop: the tree decoded into its record
CallFinish(p) ==
  /\ calls[p].pc = "loop"
  /\ calls[p].i > Len(calls[p].paths)
  /\ LET Decoded(r) ==
           calls' = [calls EXCEPT ![p].pc = "done", ![p].target = r.v,
                                  ![p].err = IF r.ok THEN NoErr ELSE ErrDecode]
     IN Decoded(mapToStruct(cells[TreeOf(p)], calls[p].target))
  /\ UNCHANGED cells
  /\ UNCHANGED <<applyVars, kustVars, runVars, mergeVars, parseVars>>

NextConcurrent ==
  \E p \in Procs : CallBegin(p) \/ CallEdit(p) \/ CallFinish(p)

SpecConcurrent == InitConcurrent /\ [][NextConcurrent]_vars

\* the edits applied to the tree one after the other, up to the first error
RECURSIVE ApplyEdits(_, _)
ApplyEdits(tree, edits) ==
  IF edits = << >> THEN [m |-> tree, err |-> NoErr]
  ELSE LET r == setValueAtPath(tree, Head(edits).Path, Head(edits).Value)
       IN IF r.err # NoErr THEN r ELSE ApplyEdits(r.m, Tail(edits))

\* what ApplyPaths(base, edits) leaves and returns when it runs alone
ApplyPathsAlone(base, edits) ==
  IF edits = << >> THEN [v |-> base, err |-> NoErr]
  ELSE LET e == ApplyEdits(structToMap(base), edits)
           d == mapToStruct(e.m, base)
       IN IF e.err # NoErr THEN [v |-> base, err |-> e.err]
          ELSE [v |-> d.v, err |-> IF d.ok THEN NoErr ELSE ErrDecode]

\* C22: under every interleaving of two invocations with their own records,
\* the record and the error of an invocation that has returned are those of
\* the same invocation run alone.
InvocationsDoNotInterfere ==
  \A p \in Procs :
    calls[p].pc = "done" =>
      [v |-> calls[p].target, err |-> calls[p].err] =
        ApplyPathsAlone(calls[p].base, calls[p].paths)

\* invocation 1 has returned with its label written while invocation 2, on
\* another record and with a failing list, is in the middle of its loop
OneReturnedWhileOtherInLoop ==
  /\ calls[1].pc = "done" /\ calls[1].err = NoErr
  /\ calls[1].base = BaseEmpty
  /\ calls[1].paths = <<PathValue(PLabelsApp, VString)>>
  /\ calls[1].target[<<"metadata">>][<<"labels">>] = GoMap(<<"app">> :> <<"x">>)
  /\ calls[2].pc = "loop" /\ calls[2].i = 2
  /\ calls[2].base = BaseFilled
  /\ calls[2].paths = <<PathValue(PLabelsApp, VInt), PathValue(PSchedule0, VString)>>
  /\ cells[2] # cells[1]

-----------------------------------------------------------------------------
(* Manager.UpdateKustomization over the in-memory file system.  A file     *)
(* name is the sequence of its characters; kustomization.yaml is kept as   *)
(* the document it holds.                                                  *)

\* strings.HasSuffix(s, suffix)
HasSuffixStr(s, suffix) ==
  /\ Len(s) >= Len(suffix)
  /\ SubSeq(s, Len(s) - Len(suffix) + 1, Len(s)) = suffix

DotYaml == <<".", "y", "a", "m", "l">>
DotYml == <<".", "y", "m", "l">>

\* filepath.Base: trailing separators removed, then the last element; "." for
\* the empty path and "/" for a path of separators only
RECURSIVE TrimSlashes(_)
TrimSlashes(path) ==
  IF Len(path) >= 1 /\ path[Len(path)] = "/" THEN TrimSlashes(SubSeq(path, 1, Len(path) - 1))
  ELSE path

RECURSIVE AfterLastSlash(_)
AfterLastSlash(path) ==
  IF Len(path) = 0 \/ path[Len(path)] = "/" THEN << >>
  ELSE Append(AfterLastSlash(SubSeq(path, 1, Len(path) - 1)), path[Len(path)])

Base(path) ==
  IF path = << >> THEN <<".">>
  ELSE IF TrimSlashes(path) = << >> THEN <<"/">>
  ELSE AfterLastSlash(TrimSlashes(path))

\* the loop of lines 43-53: the non-empty names with a YAML suffix, in order
validFilesOf(generatedFiles) ==
  SelectSeq(generatedFiles,
            LAMBDA file : file # << >> /\ (HasSuffixStr(file, DotYaml) \/ HasSuffixStr(file, DotYml)))

DefaultAPIVersion == "kustomize.config.k8s.io/v1beta1"
DefaultKind == "Kustomization"

\* a kustomization.yaml holding a document; "" and << >> stand for a key
\* that is not in the file
YamlFile(apiVersion, kind, resources) ==
  [t |-> "yaml", apiVersion |-> apiVersion, kind |-> kind, resources |-> resources]

EmptyFile == [t |-> "empty"]
InvalidFile == [t |-> "invalid"]

\* the Kustomization the call starts from (lines 63-69)
DefaultKustomization ==
  [apiVersion |-> DefaultAPIVersion, kind |-> DefaultKind, resources |-> << >>]

\* kyaml.Unmarshal(data, kustomization) and the checks of lines 92-103: a key
\* the file does not hold leaves the default
UnmarshalKustomization(file) ==
  [apiVersion |-> IF file.apiVersion = "" THEN DefaultAPIVersion ELSE file.apiVersion,
   kind |-> IF file.kind = "" THEN DefaultKind ELSE file.kind,
   resources |-> file.resources]

\* kyaml.Marshal(kustomization): the document written (resources is omitted
\* when empty, which reads back as no resources)
MarshalKustomization(k) == YamlFile(k.apiVersion, k.kind, k.resources)

\* the set existingResources is built once, before the loop (lines 112-115)
existingResourcesOf(k) == {k.resources[n] : n \in DOMAIN k.resources}

RECURSIVE addResources(_, _, _)
\* the loop of lines 118-127: a base name is appended unless the set built
\* before the loop holds it
addResources(resources, existingResources, validFiles) ==
  IF validFiles = << >> THEN resources
  ELSE LET filename == Base(Head(validFiles))
       IN addResources(IF filename \in existingResources THEN resources
                       ELSE Append(resources, filename),
                       existingResources, Tail(validFiles))

\* the call ignoring the mode: the existing file is always read
recreateNever(recreate) == FALSE

\* recreate, as the call was given it
recreateOf(recreate) == recreate

\* the Kustomization the names are added to (lines 72-109); err when the
\* existing file does not parse
loadKustomization(file, recreate) ==
  IF ~recreateOf(recreate) /\ file.t # "absent"
    THEN CASE file.t = "empty" -> [k |-> DefaultKustomization, err |-> "nil"]
           [] file.t = "invalid" -> [k |-> DefaultKustomization, err |-> "failed to parse"]
           [] OTHER -> [k |-> UnmarshalKustomization(file), err |-> "nil"]
    ELSE [k |-> DefaultKustomization, err |-> "nil"]

Written(k, validFiles) ==
  MarshalKustomization(
    [k EXCEPT !.resources = addResources(k.resources, existingResourcesOf(k), validFiles)])

MaxFiles == 2
MaxResources == 2

FA == <<"a", ".", "y", "a", "m", "l">>
FDirA == <<"d", "/", "a", ".", "y", "a", "m", "l">>
FB == <<"b", ".", "y", "m", "l">>
FTxt == <<"n", ".", "t", "x", "t">>
FNone == << >>

GeneratedFiles == {FA, FDirA, FB, FTxt, FNone}

OutputDirs == {"", "/output"}

\* the output directory before the first call: no kustomization.yaml, an empty
\* or unparsable one, or one listing resources without duplicates
InitialFiles ==
  {NoFile, EmptyFile, InvalidFile,
   YamlFile("", "", << >>),
   YamlFile(DefaultAPIVersion, DefaultKind, <<FA>>),
   YamlFile(DefaultAPIVersion, DefaultKind, <<FB, FTxt>>)}

InitKustomize ==
  /\ files \in InitialFiles
  /\ update = NoUpdate
  /\ ApplyIdle
  /\ ConcIdle /\ RunIdle /\ MergeIdle /\ ParseIdle

Returned(outputDir, generatedFiles, recreate, wrote, e) ==
  [called |-> TRUE, outputDir |-> outputDir, generatedFiles |-> generatedFiles,
   recreate |-> recreate, before |-> files, wrote |-> wrote, err |-> e]

UpdateKustomization(outputDir, generatedFiles, recreate) ==
  /\ files.t = "yaml" => Len(files.resources) <= MaxResources
  /\ LET validFiles == validFilesOf(generatedFiles)
         loaded == loadKustomization(files, recreate)
     IN IF outputDir = ""
          THEN /\ update' = Returned(outputDir, generatedFiles, recreate, FALSE,
                                     "output directory cannot be empty")
               /\ UNCHANGED files
        ELSE IF Len(generatedFiles) = 0 \/ Len(validFiles) = 0
          THEN /\ update' = Returned(outputDir, generatedFiles, recreate, FALSE, "nil")
               /\ UNCHANGED files
        ELSE IF loaded.err # "nil"
          THEN /\ update' = Returned(outputDir, generatedFiles, recreate, FALSE, loaded.err)
               /\ UNCHANGED files
        ELSE /\ files' = Written(loaded.k, validFiles)
             /\ update' = Returned(outputDir, generatedFiles, recreate, TRUE, "nil")
  /\ UNCHANGED <<applyVars, concVars, runVars, mergeVars, parseVars>>

NextKustomize ==
  \E outputDir \in OutputDirs, generatedFiles \in ListsUpTo(GeneratedFiles, MaxFiles),
     recreate \in BOOLEAN :
    UpdateKustomization(outputDir, generatedFiles, recreate)

SpecKustomize == InitKustomize /\ [][NextKustomize]_vars

IsInjective(s) == \A m, n \in DOMAIN s : s[m] = s[n] => m = n

BaseNames(fs) == [n \in DOMAIN fs |-> Base(fs[n])]

ResourcesOf(file) == IF file.t = "yaml" THEN file.resources ELSE << >>

\* C24 as stated: after a successful call, starting from a kustomization.yaml
\* without duplicates, no name occurs more than once in the resources list,
\* whatever the generated files and after any sequence of calls.
NoResourceIsListedTwice ==
  IsInjective(ResourcesOf(files))

\* from an empty output directory, one call in merge mode with a.yaml and
\* d/a.yaml returned nil and wrote a.yaml twice
SameBaseNameListedTwice ==
  /\ update.called /\ update.err = "nil" /\ update.wrote
  /\ update.before = NoFile
  /\ update.generatedFiles = <<FA, FDirA>>
  /\ ~update.recreate
  /\ files.resources = <<FA, FA>>


SetOf(s) == {s[n] : n \in DOMAIN s}

\* C25: a call that wrote in merge mode kept the resources of the existing
\* file, in their places, and the names it lists are those and the base names
\* of the valid generated files; a call that wrote in recreate mode lists
\* exactly the base names of the valid generated files, whatever the previous
\* file held; with no existing file either mode writes the default document
\* with exactly those base names.
MergeKeepsAndRecreateReplaces ==
  update.called /\ update.wrote =>
    LET names == BaseNames(validFilesOf(update.generatedFiles))
        kept == ResourcesOf(update.before)
    IN /\ files.t = "yaml"
       /\ ~update.recreate =>
            /\ SubSeq(files.resources, 1, Len(kept)) = kept
            /\ SetOf(files.resources) = SetOf(kept) \cup SetOf(names)
       /\ update.recreate => files.resources = names
       /\ update.before = NoFile =>
            files = YamlFile(DefaultAPIVersion, DefaultKind, names)

\* recreate mode over a file listing b.yml and n.txt, with a.yaml and n.txt
\* generated: the file now lists a.yaml alone
RecreatedOverExistingFile ==
  /\ update.called /\ update.wrote /\ update.recreate
  /\ update.before = YamlFile(DefaultAPIVersion, DefaultKind, <<FB, FTxt>>)
  /\ update.generatedFiles = <<FA, FTxt>>
  /\ files = YamlFile(DefaultAPIVersion, DefaultKind, <<FA>>)


-----------------------------------------------------------------------------
(* structopt.MergeStruct, on the records the runner merges.                *)

\* isZeroValue: false, 0, "", a nil or empty slice or map, a nil pointer, a
\* struct all of whose fields are zero
RECURSIVE isZeroValue(_, _)
isZeroValue(ty, v) ==
  CASE ty.k = "string" -> v = << >>
    [] ty.k = "bool" -> v = FALSE
    [] ty.k = "int64" -> v = ZeroInt
    [] ty.k \in {"slice", "map"} -> v.nil \/ (IF ty.k = "slice" THEN v.a ELSE v.m) = << >>
    [] ty.k = "ptr" -> v.nil
    [] ty.k = "time" -> v.zero
    [] ty.k = "struct" -> \A n \in DOMAIN ty.f : isZeroValue(ty.f[n].ty, v[n])

\* a merge that copies src over dst, zero fields included
mergeFieldsOverwriting(ty, dst, src) == src

\* mergeFields(dst, src): the value dst holds afterwards.  A Time is a struct
\* whose fields are unexported: none of them can be set
RECURSIVE mergeFields(_, _, _)
mergeFields(ty, dst, src) ==
  CASE ty.k = "struct" ->
         [n \in DOMAIN ty.f |->
            IF isZeroValue(ty.f[n].ty, src[n]) THEN dst[n]
            ELSE IF ty.f[n].ty.k \in {"struct", "map", "slice", "ptr", "time"}
              THEN mergeFields(ty.f[n].ty, dst[n], src[n])
            ELSE src[n]]
    [] ty.k = "ptr" ->
         IF src.nil THEN dst
         ELSE Ptr(mergeFields(ty.e, IF dst.nil THEN Zero(ty.e) ELSE dst.v, src.v))
    [] ty.k = "slice" ->
         IF src.nil \/ src.a = << >> THEN dst ELSE src
    [] ty.k = "map" ->
         IF src.nil \/ src.m = << >> THEN dst
         ELSE LET old == IF dst.nil THEN << >> ELSE dst.m
              IN GoMap([key \in DOMAIN old \cup DOMAIN src.m |->
                          IF key \in DOMAIN src.m THEN src.m[key] ELSE old[key]])
    [] ty.k = "time" -> dst
    [] OTHER -> src

\* MergeStruct[T](dst, src *T): dst as the caller holds it afterwards
MergeStruct(ty, dst, src) ==
  IF dst.nil \/ src.nil THEN dst
  ELSE Ptr(mergeFields(ty, dst.v, src.v))

SomeTime == [zero |-> FALSE, s |-> <<"2024-01-01T00:00:00Z">>]

\* the records merged from
MergeSources ==
  {[Zero(TCronWorkflow) EXCEPT
      ![<<"metadata">>] = [@ EXCEPT ![<<"name">>] = name, ![<<"labels">>] = labels,
                                    ![<<"creationTimestamp">>] = created],
      ![<<"spec">>] =
         [@ EXCEPT ![<<"suspend">>] = suspend,
                   ![<<"schedule">>] = schedule,
                   ![<<"workflowSpec">>] =
                      [@ EXCEPT ![<<"templates">>] = templates,
                                ![<<"parallelism">>] = parallelism]]] :
     name \in {<< >>, <<"new">>},
     labels \in {Nil, GoMap(<< >>), GoMap(<<"app">> :> <<"new">>), GoMap(<<"tier">> :> <<"db">>)},
     created \in {ZeroTime, SomeTime},
     suspend \in BOOLEAN,
     schedule \in {<< >>, <<"*/5 * * * *">>},
     templates \in {Nil, Slice(<< >>), Slice(<<[Zero(TTemplate) EXCEPT ![<<"name">>] = <<"n0">>]>>)},
     parallelism \in {Nil, Ptr(ZeroInt), Ptr(Int64(FALSE, <<"3">>))}}

\* the records merged into
MergeTargets ==
  {BaseEmpty, BaseFilled,
   [BaseFilled EXCEPT
      ![<<"metadata">>] = [@ EXCEPT ![<<"creationTimestamp">>] =
                                       [zero |-> FALSE, s |-> <<"2020-02-02T00:00:00Z">>]],
      ![<<"spec">>] = [@ EXCEPT ![<<"suspend">>] = TRUE,
                                ![<<"workflowSpec">>] =
                                   [@ EXCEPT ![<<"parallelism">>] = Ptr(Int64(FALSE, <<"7">>))]]]}

InitMerge ==
  /\ mergeDst \in {Nil} \cup {Ptr(d) : d \in MergeTargets}
  /\ mergeSrc \in {Nil} \cup {Ptr(r) : r \in MergeSources}
  /\ mergePc = "call"
  /\ dstBefore = mergeDst
  /\ ApplyIdle
  /\ ConcIdle /\ KustIdle /\ RunIdle /\ ParseIdle

CallMergeStruct ==
  /\ mergePc = "call"
  /\ mergeDst' = MergeStruct(TCronWorkflow, mergeDst, mergeSrc)
  /\ mergePc' = "returned"
  /\ UNCHANGED <<mergeSrc, dstBefore>>
  /\ UNCHANGED <<applyVars, concVars, kustVars, runVars, parseVars>>

NextMerge == CallMergeStruct

SpecMerge == InitMerge /\ [][NextMerge]_vars

\* the zero values the contract lists
ZeroOrEmpty(ty, v) ==
  \/ v = Zero(ty)
  \/ ty.k = "slice" /\ ~v.nil /\ v.a = << >>
  \/ ty.k = "map" /\ ~v.nil /\ v.m = << >>

\* what the contract says of one field: d before, s merged in, r afterwards
RECURSIVE MergedField(_, _, _, _)
MergedField(ty, d, s, r) ==
  IF ZeroOrEmpty(ty, s) THEN r = d
  ELSE CASE ty.k = "slice" -> r = s
         [] ty.k = "map" ->
              /\ ~r.nil
              /\ \A key \in DOMAIN s.m : key \in DOMAIN r.m /\ r.m[key] = s.m[key]
              /\ d.nil => DOMAIN r.m = DOMAIN s.m
              /\ ~d.nil => /\ DOMAIN r.m = DOMAIN d.m \cup DOMAIN s.m
                           /\ \A key \in DOMAIN d.m \ DOMAIN s.m : r.m[key] = d.m[key]
         [] ty.k = "struct" ->
              \A n \in DOMAIN ty.f : MergedField(ty.f[n].ty, d[n], s[n], r[n])
         [] ty.k \in {"string", "bool", "int64"} -> r = s
         [] OTHER -> TRUE

\* C27: after MergeStruct(dst, src), a nil dst or src left dst as it was;
\* otherwise every field of dst whose src field is zero (false, 0, "", a nil or
\* empty slice or map, a nil pointer, an all-zero struct) is as before, a
\* non-empty src slice is now the dst slice, a map holds the src entries and
\* the dst entries under the other keys, a non-zero string, number or boolean
\* is copied, and nested structs obey the same field by field.
MergeCopiesOnlyNonZeroFields ==
  mergePc = "returned" =>
    IF dstBefore.nil \/ mergeSrc.nil THEN mergeDst = dstBefore
    ELSE /\ ~mergeDst.nil
         /\ MergedField(TCronWorkflow, dstBefore.v, mergeSrc.v, mergeDst.v)

\* the filled record after a merge of labels {tier: db}, one template and an
\* empty name: the old label is kept, the new one added, the templates
\* replaced, the name as before
MergedIntoFilledRecord ==
  /\ mergePc = "returned"
  /\ dstBefore = Ptr(BaseFilled)
  /\ ~mergeSrc.nil
  /\ mergeSrc.v[<<"metadata">>][<<"name">>] = << >>
  /\ mergeDst.v[<<"metadata">>][<<"name">>] = <<"cw">>
  /\ mergeDst.v[<<"metadata">>][<<"labels">>] =
       GoMap(<<"app">> :> <<"old">> @@ <<"tier">> :> <<"db">>)
  /\ Len(mergeDst.v[<<"spec">>][<<"workflowSpec">>][<<"templates">>].a) = 1
  /\ mergeSrc.v[<<"spec">>][<<"schedule">>] = << >>
  /\ mergeDst.v[<<"spec">>][<<"schedule">>] = <<"0 0 * * *">>


-----------------------------------------------------------------------------
(* Runner.processUnit: one manifest written for each value of a unit.      *)

MaxValues == 3

\* a value of a unit: the file name it asks for and the metadata and spec merged
\* into its manifest
Value(filename, name) ==
  [Filename |-> filename,
   Metadata |-> [Zero(TObjectMeta) EXCEPT ![<<"name">>] = name],
   Spec |-> [Zero(TCronWorkflowSpec) EXCEPT ![<<"schedule">>] = <<"0 0 * * *">>]]

Values == {Value(filename, name) : filename \in {<<"job">>, <<"task">>},
                                   name \in {<<"first">>, <<"other">>}}

\* the CronWorkflow of lines 63-74, marshalled (line 76): the document written
ManifestOf(value) ==
  structToMap([BaseEmpty EXCEPT
                 ![<<"metadata">>] = mergeFields(TObjectMeta, @, value.Metadata),
                 ![<<"spec">>] = mergeFields(TCronWorkflowSpec, @, value.Spec)])

\* fmt.Sprintf("%s-%d.yaml", ...) and fmt.Sprintf("%s.yaml", ...), lines 50-54
outputFilename(value, counter) ==
  IF value.Filename \in DOMAIN counter
    THEN value.Filename \o <<"-", DigitChar(counter[value.Filename] + 1)>> \o DotYaml
    ELSE value.Filename \o DotYaml

InitRunner ==
  /\ unit \in ListsUpTo(Values, MaxValues)
  /\ valueIdx = 1
  /\ sameFilenameCounter = << >>
  /\ outputs = << >>
  /\ runErr = "running"
  /\ ApplyIdle
  /\ ConcIdle /\ KustIdle /\ MergeIdle /\ ParseIdle

\* one iteration of the loop of processUnit: the file opened (created or
\* truncated) and the manifest written; the map sameFilenameCounter is read
\* and nowhere assigned
ProcessValue ==
  /\ runErr = "running"
  /\ valueIdx <= Len(unit)
  /\ LET filename == outputFilename(unit[valueIdx], sameFilenameCounter)
     IN outputs' = [f \in DOMAIN outputs \cup {filename} |->
                      IF f = filename THEN ManifestOf(unit[valueIdx]) ELSE outputs[f]]
  /\ valueIdx' = valueIdx + 1
  /\ UNCHANGED <<unit, sameFilenameCounter, runErr>>
  /\ UNCHANGED <<applyVars, concVars, kustVars, mergeVars, parseVars>>

\* os.MkdirAll or os.OpenFile failing: processUnit returns the error
ProcessValueFails ==
  /\ runErr = "running"
  /\ valueIdx <= Len(unit)
  /\ runErr' = "failed to open output file"
  /\ UNCHANGED <<unit, valueIdx, sameFilenameCounter, outputs>>
  /\ UNCHANGED <<applyVars, concVars, kustVars, mergeVars, parseVars>>

\* after the last value: return nil
ProcessUnitReturn ==
  /\ runErr = "running"
  /\ valueIdx > Len(unit)
  /\ runErr' = "nil"
  /\ UNCHANGED <<unit, valueIdx, sameFilenameCounter, outputs>>
  /\ UNCHANGED <<applyVars, concVars, kustVars, mergeVars, parseVars>>

NextRunner ==
  \/ ProcessValue
  \/ ProcessValueFails
  \/ ProcessUnitReturn

SpecRunner == InitRunner /\ [][NextRunner]_vars

\* how many of the first k values of the unit ask for the file name of value k
Occurrence(k) == Cardinality({j \in 1..k : unit[j].Filename = unit[k].Filename})

\* filename.yaml for the first value with a file name, filename-2.yaml for the
\* second, filename-3.yaml for the third
DocumentedFilename(k) ==
  IF Occurrence(k) = 1 THEN unit[k].Filename \o DotYaml
  ELSE unit[k].Filename \o <<"-", DigitChar(Occurrence(k))>> \o DotYaml

\* C26 as stated: when processUnit has returned nil, the n-th value with a file
\* name was written to filename.yaml (n = 1) or filename-n.yaml, and every
\* value's manifest is in its file: none was overwritten by a later value.
EveryValueHasItsOwnFile ==
  runErr = "nil" =>
    \A k \in 1..Len(unit) :
      /\ DocumentedFilename(k) \in DOMAIN outputs
      /\ outputs[DocumentedFilename(k)] = ManifestOf(unit[k])

\* a unit of two values named job: processUnit returned nil, job.yaml holds the
\* manifest of the second value and there is no other file
SecondValueOverwroteTheFirst ==
  /\ runErr = "nil"
  /\ unit = <<Value(<<"job">>, <<"first">>), Value(<<"job">>, <<"other">>)>>
  /\ DOMAIN outputs = {<<"job">> \o DotYaml}
  /\ outputs[<<"job">> \o DotYaml] = ManifestOf(unit[2])


-----------------------------------------------------------------------------
(* ApplyPaths with two edits: the first assigns a sequence literal to      *)
(* spec.workflowSpec.templates, the second walks through its elements or   *)
(* addresses the root.                                                     *)

\* the texts of the elements: null, a string, a number, a sequence, a mapping
ElementTexts ==
  {VNull, <<Quote, "x", Quote>>, VInt, VArray1,
   <<"{", Quote, "name", Quote, ":", Quote, "old", Quote, "}">>}

\* the literal [e1] or [e1,e2]
ArrayLiteral(elems) ==
  IF Len(elems) = 1 THEN <<"[">> \o elems[1] \o <<"]">>
  ELSE <<"[">> \o elems[1] \o <<",">> \o elems[2] \o <<"]">>

PTemplatesName == <<"$", ".", "spec", ".", "workflowSpec", ".", "templates", ".", "name">>

PTemplate0ContainerName ==
  <<"$", ".", "spec", ".", "workflowSpec", ".", "templates", "[", "0", "]", ".",
    "container", ".", "name">>

PRoot == <<"$">>

PRootDot == <<"$", ".">>

ElementPaths ==
  {PTemplate0Name, PTemplateLastName, PTemplate2Name, PTemplate0ContainerName, PTemplatesName,
   PRoot, PRootDot}

InitElement ==
  /\ target = BaseEmpty
  /\ paths \in {<<PathValue(PTemplates, ArrayLiteral(elems)), PathValue(p, v)>> :
                  elems \in ListsUpTo(ElementTexts, 2) \ {<< >>},
                  p \in ElementPaths, v \in {VString, VArray}}
  /\ targetMap = NoTree
  /\ prevMap = NoTree
  /\ i = 0
  /\ pc = "build"
  /\ err = NoErr
  /\ literal = NoLiteral
  /\ converted = NotConverted
  /\ errPath = NoPath
  /\ result = NoResult
  /\ baseCW = target
  /\ OthersIdle

NextElement ==
  \/ ApplyPathsBegin
  \/ ApplyPathsEdit
  \/ ApplyPathsFinish

SpecElement == InitElement /\ [][NextElement]_vars

\* the second edit has been processed
SecondEditProcessed == EditProcessed /\ LastEdit = paths[2]

\* segment k of the edit processed last is an indexed segment before the last
\* whose element was there before the edit and was no mapping
ElementWasNoMapping(k) ==
  LET segs == Segments(LastEdit)
      before == Reach(prevMap, Sub(segs, 1, k))
  IN /\ k < Len(segs)
     /\ segs[k].HasIndex
     /\ before.st = "found"
     /\ ~IsMap(before.v)

\* segment k of the edit processed last is a plain key before the last that
\* held something other than a mapping before the edit
PlainKeyHeldNoMapping(k) ==
  LET segs == Segments(LastEdit)
      before == Reach(prevMap, Sub(segs, 1, k))
  IN /\ k < Len(segs)
     /\ ~segs[k].HasIndex
     /\ before.st = "found"
     /\ ~IsMap(before.v)

\* C28: when the walk of an edit goes through an indexed segment key[i] before
\* the last whose element exists and is no mapping (null, a scalar or a
\* sequence), the edit does not fail at that segment: the element is a mapping
\* afterwards that holds nothing but what the rest of the path put in it (the
\* previous value is lost), and when the next segment is the last, a plain
\* key, the edit is applied and the element holds that key alone, with the
\* coerced value.  A plain key before the last that holds no mapping makes the
\* edit fail with "path segment is not a map".
NonMappingElementGivesWay ==
  SecondEditProcessed =>
    \A k \in 1..Len(Segments(LastEdit)) :
     /\ PlainKeyHeldNoMapping(k) => EditFailed /\ err = ErrNotAMap(Segments(LastEdit)[k].Key)
     /\ ElementWasNoMapping(k) =>
        LET segs == Segments(LastEdit)
            now == Reach(targetMap, Sub(segs, 1, k))
        IN /\ now.st = "found"
           /\ IsMap(now.v)
           /\ DOMAIN now.v.m \subseteq {segs[k + 1].Key}
           /\ EditFailed => err.key # segs[k].Key
           /\ k + 1 = Len(segs) /\ ~segs[k + 1].HasIndex =>
                /\ EditApplied
                /\ now.v.m = (segs[k + 1].Key :> convertValue(LastEdit.Value))

\* templates was [null,["z"]]; $.spec.workflowSpec.templates[-1].name = x made
\* it [null,{name: x}]
SequenceElementGaveWay ==
  /\ SecondEditProcessed /\ EditApplied
  /\ paths[1].Value = ArrayLiteral(<<VNull, VArray1>>)
  /\ paths[2] = PathValue(PTemplateLastName, VString)
  /\ Templates(prevMap) = Arr(<<Null, Arr(<<Str(<<"z">>)>>)>>)
  /\ Templates(targetMap) = Arr(<<Null, Map(<<"name">> :> Str(<<"x">>))>>)

\* templates was [null]; $.spec.workflowSpec.templates[0].name = x made it
\* [{name: x}]
NullElementGaveWay ==
  /\ SecondEditProcessed /\ EditApplied
  /\ paths[2] = PathValue(PTemplate0Name, VString)
  /\ Templates(prevMap) = Arr(<<Null>>)
  /\ Templates(targetMap) = Arr(<<Map(<<"name">> :> Str(<<"x">>))>>)


\* C29 as stated: ApplyPaths never skips an edit in silence: right after an
\* edit that did not fail, the tree holds the coerced value of the edit at its
\* path; an edit with the path "$" or "$." is applied or rejected.
NoEditIsSkipped ==
  EditApplied =>
    /\ Segments(LastEdit) # << >>
    /\ Reach(targetMap, Segments(LastEdit)) =
         [st |-> "found", v |-> convertValue(LastEdit.Value)]

\* the edit $ = x went through without an error and left the tree as it was
RootEditChangedNothing ==
  /\ SecondEditProcessed /\ EditApplied
  /\ paths[2] = PathValue(PRoot, VString)
  /\ targetMap = prevMap

\* the same for $. with an array value
RootDotEditChangedNothing ==
  /\ SecondEditProcessed /\ EditApplied
  /\ paths[2] = PathValue(PRootDot, VArray)
  /\ targetMap = prevMap

\* the edits that do not address the root are written
NamedEditIsWritten ==
  EditApplied /\ Segments(LastEdit) # << >> =>
    Reach(targetMap, Segments(LastEdit)) = [st |-> "found", v |-> convertValue(LastEdit.Value)]

\* a plain key over a sequence has been refused
PlainKeyOverSequenceRefused ==
  /\ SecondEditProcessed /\ EditFailed
  /\ paths[2].Path = PTemplatesName
  /\ PlainKeyHeldNoMapping(3)


-----------------------------------------------------------------------------
(* The path parser on its own, on every path over a small alphabet.        *)

PathAlphabet == {"$", ".", "k", "[", "]", "-", "0", "1"}

\* the longest path drawn from the alphabet
MaxPathLen == 5

\* paths of the tests
LongPaths ==
  {PLabelsApp, PTemplate0Name, PTemplateLastName, PContainerArgs0, PNoDollar, PAt, PBadIndex,
   <<"$", ".", "k", "[", "-", "0", "]">>,
   <<"$", ".", "k", "[", "-", "1", "]", ".", "k">>,
   <<"$", ".", "k", ".", ".", "k", "[", "1", "0", "]">>}

PathTexts == (UNION {[1..n -> PathAlphabet] : n \in 0..MaxPathLen}) \cup LongPaths

InitParse ==
  /\ pathText \in PathTexts
  /\ parseOut = NotParsed
  /\ ApplyIdle
  /\ ConcIdle /\ KustIdle /\ RunIdle /\ MergeIdle

\* pe.parseJSONPath(path)
ParseJSONPath ==
  /\ parseOut = NotParsed
  /\ parseOut' = parseJSONPath(pathText)
  /\ UNCHANGED pathText
  /\ UNCHANGED <<applyVars, concVars, kustVars, runVars, mergeVars>>

NextParse == ParseJSONPath

SpecParse == InitParse /\ [][NextParse]_vars

Accepted == parseOut # NotParsed /\ parseOut.ok

\* C30 as stated: for every accepted path each segment has a non-empty key,
\* IsNegative is true exactly when the index is below zero, and the segments
\* are none only when the path is "$" or "$."; any other accepted path, "$.."
\* included, has at least one segment.
AcceptedPathHasSegments ==
  Accepted =>
    /\ \A n \in DOMAIN parseOut.segs :
         /\ parseOut.segs[n].Key # << >>
         /\ parseOut.segs[n].IsNegative <=>
              (parseOut.segs[n].HasIndex /\ parseOut.segs[n].ArrayIndex < 0)
    /\ parseOut.segs = << >> => pathText \in {PRoot, PRootDot}

\* "$.." has been accepted, with no segment
DotsOnlyAcceptedWithoutSegment ==
  /\ Accepted
  /\ pathText = <<"$", ".", ".">>
  /\ parseOut.segs = << >>

\* what does hold of the segments of an accepted path
SegmentsAreWellFormed ==
  Accepted =>
    \A n \in DOMAIN parseOut.segs :
      /\ parseOut.segs[n].Key # << >>
      /\ parseOut.segs[n].IsNegative <=>
           (parseOut.segs[n].HasIndex /\ parseOut.segs[n].ArrayIndex < 0)

\* the index -0 is not negative
MinusZeroIsNotNegative ==
  /\ Accepted
  /\ pathText = <<"$", ".", "k", "[", "-", "0", "]">>
  /\ parseOut.segs = <<PathSegment(<<"k">>, TRUE, 0)>>


=============================================================================
